---- MODULE Spec2Model ----
(***************************************************************************)
(* Crawl orchestration and resilience layer of the Douyin hot-list spider: *)
(* DouyinSpider.crawl with its cache lookup, browsing session, retried     *)
(* hot-list fetch, per-item processing, batch download dispatch and cache  *)
(* store; BaseSpider.retry_on_failure; CacheManager.get / set.             *)
(***************************************************************************)
EXTENDS Integers, Sequences, FiniteSets, TLC

\* ------------------------------------------------------------------ bounds
\* largest config.max_items explored (validate() accepts 1..1000)
MaxItems == 2
\* longest word_list of a fetched hot-list payload
MaxListLen == 3
\* largest hot_list_max_retries / video_detail_max_retries explored
MaxRetries == 2
\* clock ticks per wall-clock hour, and the last tick of the clock
TicksPerHour == 2
MaxTime == 2
\* config.cache_duration (the CacheManager's ttl), in ticks
CacheDuration == 1
\* CacheManager(max_size=100) as constructed by main()
CacheMaxSize == 100

\* ------------------------------------------------------- optional values
\* Optional[T] is a sequence of length <= 1: <<>> is None
None == <<>>
Some(v) == <<v>>
IsNone(o) == o = <<>>

\* ------------------------------------------------------------ exceptions
\* an exception object: its class and the invocation of the operation that
\* threw it (0 when it was not thrown by a retried operation)
Exc(cls, at) == [cls |-> cls, at |-> at]
NoException == Exc("None", 0)

\* classes derived from DouyinSpiderException (core/exceptions.py)
DouyinSpiderExceptions ==
    {"DouyinSpiderException", "NetworkException", "RequestTimeoutException",
     "ConnectionException", "EmptyDataException"}

\* str(e)
Str(e) == e.cls

\* `raise x`: raising None is itself a TypeError
Raise(x) == IF x = NoException THEN Exc("TypeError", 0) ELSE x

\* --------------------------------------------------------- retry wrapper
\* One invocation of the wrapped operation is an outcome record:
\*   [raises |-> BOOLEAN, exc |-> exception, value |-> returned value]
\* and the operation is the sequence of its outcomes, invocation by
\* invocation.  The wrapper's run is [calls, raised, exc, value, sleeps],
\* with value the optional return value and sleeps the time.sleep calls made:
\* the attempt each one followed and its argument.
Sleep(after, delay) == [after |-> after, delay |-> delay]

\* a wrapper that sleeps after every failed attempt, the last one included
RECURSIVE RetryLoopSleepAlways(_, _, _, _, _)
RetryLoopSleepAlways(max_retries, op, attempt, last_exception, sleeps) ==
    IF attempt >= max_retries
    THEN [calls |-> attempt, raised |-> TRUE, exc |-> Raise(last_exception),
          value |-> None, sleeps |-> sleeps]
    ELSE LET r == op[attempt + 1] IN
         IF ~r.raises
         THEN [calls |-> attempt + 1, raised |-> FALSE, exc |-> NoException,
               value |-> Some(r.value), sleeps |-> sleeps]
         ELSE RetryLoopSleepAlways(max_retries, op, attempt + 1, r.exc,
                                   Append(sleeps, Sleep(attempt + 1, "delay")))

RECURSIVE RetryLoop(_, _, _, _, _)
RetryLoop(max_retries, op, attempt, last_exception, sleeps) ==
    IF attempt >= max_retries
    THEN [calls |-> attempt, raised |-> TRUE, exc |-> Raise(last_exception),
          value |-> None, sleeps |-> sleeps]
    ELSE LET r == op[attempt + 1] IN
         IF ~r.raises
         THEN [calls |-> attempt + 1, raised |-> FALSE, exc |-> NoException,
               value |-> Some(r.value), sleeps |-> sleeps]
         ELSE RetryLoop(max_retries, op, attempt + 1, r.exc,
                        IF attempt < max_retries - 1
                        THEN Append(sleeps, Sleep(attempt + 1, "delay"))
                        ELSE sleeps)

\* a wrapper that makes one attempt less: range(max_retries - 1)
RetryOnFailureOneLess(max_retries, op) ==
    RetryLoop(max_retries - 1, op, 0, NoException, <<>>)

RetryOnFailure(max_retries, op) == RetryLoop(max_retries, op, 0, NoException, <<>>)

\* ------------------------------------------------------------ cache keys
DigitChars == <<"0", "1", "2", "3", "4", "5", "6", "7", "8", "9">>
Digit(d) == DigitChars[d + 1]
Pad2(n) == Digit((n \div 10) % 10) \o Digit(n % 10)
Pad4(n) == Pad2(n \div 100) \o Pad2(n % 100)

\* f"{n}" of a non-negative integer
RECURSIVE IntStr(_)
IntStr(n) == IF n < 10 THEN Digit(n) ELSE IntStr(n \div 10) \o Digit(n % 10)

\* datetime.now() at clock tick t; tick 0 is 2025-01-01 00:00
DateTimeNow(t) ==
    LET h == t \div TicksPerHour IN
    [year |-> 2025, month |-> 1, day |-> 1 + (h \div 24), hour |-> h % 24]

\* dt.strftime('%Y%m%d_%H')
Strftime(dt) == Pad4(dt.year) \o Pad2(dt.month) \o Pad2(dt.day) \o "_" \o Pad2(dt.hour)

\* a key of the hour alone, whatever max_items is
CacheKeyAnySize(t, max_items) ==
    "hot_list_" \o Strftime(DateTimeNow(t))

\* f"hot_list_{datetime.now().strftime('%Y%m%d_%H')}_{self.config.max_items}"
CacheKey(t, max_items) ==
    "hot_list_" \o Strftime(DateTimeNow(t)) \o "_" \o IntStr(max_items)

\* --------------------------------------------------------- CacheManager
\* the in-memory map: key -> [value, timestamp, seq], seq being the place of
\* the key in the iteration order of the dict (insertion order)
EmptyCache == [k \in {} |-> [value |-> None, timestamp |-> 0, seq |-> 0]]

\* the place of key k among the keys of c, in iteration order
Position(c, k) == Cardinality({j \in DOMAIN c : c[j].seq <= c[k].seq})

\* del self._cache[key]
CacheRemove(c, key) ==
    LET d == [k \in (DOMAIN c) \ {key} |-> c[k]]
    IN  [k \in DOMAIN d |-> [d[k] EXCEPT !.seq = Position(d, k)]]

\* a get whose expiry test is inverted: only expired entries are returned
CacheGetInverted(c, key, t, ttl) ==
    IF key \in DOMAIN c
    THEN IF t - c[key].timestamp >= ttl
         THEN [value |-> Some(c[key].value), cache |-> c]
         ELSE [value |-> None, cache |-> CacheRemove(c, key)]
    ELSE [value |-> None, cache |-> c]

\* a get for which an entry of age ttl is still fresh
CacheGetInclusive(c, key, t, ttl) ==
    IF key \in DOMAIN c
    THEN IF t - c[key].timestamp <= ttl
         THEN [value |-> Some(c[key].value), cache |-> c]
         ELSE [value |-> None, cache |-> CacheRemove(c, key)]
    ELSE [value |-> None, cache |-> c]

\* CacheManager.get: the optional value, and the map after the lazy eviction
CacheGet(c, key, t, ttl) ==
    IF key \in DOMAIN c
    THEN IF t - c[key].timestamp < ttl
         THEN [value |-> Some(c[key].value), cache |-> c]
         ELSE [value |-> None, cache |-> CacheRemove(c, key)]
    ELSE [value |-> None, cache |-> c]

\* the key read or written last is spared: the first key of the largest
\* timestamp is evicted
NewestKey(c) ==
    CHOOSE k \in DOMAIN c :
        \A j \in (DOMAIN c) \ {k} :
            \/ c[k].timestamp > c[j].timestamp
            \/ c[k].timestamp = c[j].timestamp /\ c[k].seq < c[j].seq

\* min(self._cache.keys(), key=timestamp): the first key, in iteration
\* order, of the smallest timestamp
OldestKey(c) ==
    CHOOSE k \in DOMAIN c :
        \A j \in (DOMAIN c) \ {k} :
            \/ c[k].timestamp < c[j].timestamp
            \/ c[k].timestamp = c[j].timestamp /\ c[k].seq < c[j].seq

\* CacheManager.set: the map after the eviction of the oldest entry of a full
\* map and the insertion
CacheSet(c, key, value, t, max_size) ==
    LET kept == IF Cardinality(DOMAIN c) >= max_size
                THEN CacheRemove(c, OldestKey(c)) ELSE c
        seq  == IF key \in DOMAIN kept THEN kept[key].seq
                ELSE Cardinality(DOMAIN kept) + 1
    IN  [k \in (DOMAIN kept) \cup {key} |->
            IF k = key THEN [value |-> value, timestamp |-> t, seq |-> seq]
            ELSE kept[k]]

\* ------------------------------------------------------------ data model
\* HotListItem as assembled by _process_hot_list_item: the index of its
\* payload entry in the fetched word_list, which URL it carries and its
\* articles
HotListItem(index, url, articles) == [index |-> index, url |-> url, articles |-> articles]

\* HotListResponse; a cache may also hold a plain dict that _restore_object
\* returned as it was. crawl() constructs HotListResponse(fetch_time=...) and
\* appends to items: total_count keeps its default 0, which is also what a
\* cache file written from such a response holds
HotListResponse(items) ==
    [kind |-> "HotListResponse", items |-> items, total_count |-> 0]
PlainDict == [kind |-> "dict", items |-> <<>>]

CrawlResult(success, data, error_message, items_processed, items_success) ==
    [success |-> success, data |-> data, error_message |-> error_message,
     items_processed |-> items_processed, items_success |-> items_success]

\* ------------------------------------------------------------- payloads
\* response.response.body of the hot-list request: an empty (falsy) body, a
\* body that is text and no mapping, or a mapping whose data field is absent
\* or falsy, is no mapping, or is a mapping with a word_list of n entries
HotListBody(shape, data, n) == [shape |-> shape, data |-> data, word_list |-> n]
HotListBodies ==
    {HotListBody("falsy", "absent", 0), HotListBody("text", "absent", 0),
     HotListBody("dict", "absent", 0), HotListBody("dict", "text", 0)}
    \cup {HotListBody("dict", "dict", n) : n \in 0..MaxListLen}

\* what one attempt of the hot-list request meets: no response in time, a
\* response without body, the browser raising (its message naming a timeout,
\* a connection problem or neither), or a body
HotListFailures == {"timeout", "empty", "error_timeout", "error_connection", "error_other"}

\* one invocation of _fetch inside _fetch_hot_list_data
HotListFetch(meets, body, attempt) ==
    CASE meets = "timeout" ->
            [raises |-> TRUE, exc |-> Exc("RequestTimeoutException", attempt), value |-> body]
      [] meets = "empty" ->
            [raises |-> TRUE, exc |-> Exc("EmptyDataException", attempt), value |-> body]
      [] meets = "error_timeout" ->
            [raises |-> TRUE, exc |-> Exc("RequestTimeoutException", attempt), value |-> body]
      [] meets = "error_connection" ->
            [raises |-> TRUE, exc |-> Exc("ConnectionException", attempt), value |-> body]
      [] meets = "error_other" ->
            [raises |-> TRUE, exc |-> Exc("NetworkException", attempt), value |-> body]
      [] OTHER ->
            [raises |-> FALSE, exc |-> NoException, value |-> body]

\* handle_exceptions(reraise=True): a DouyinSpiderException passes, any other
\* exception is wrapped into a DouyinSpiderException
HandleExceptions(e) ==
    IF e.cls \in DouyinSpiderExceptions THEN e ELSE Exc("DouyinSpiderException", e.at)

\* what one attempt of a video-detail request meets: the three failures, or a
\* body that is a mapping with a video id, a mapping without one, or text
VideoDetailFailures == {"timeout", "empty", "error"}
VideoDetailBodies == {"video", "noid", "text"}

\* one invocation of _fetch inside _fetch_video_detail: every failure is
\* caught inside the operation and None is returned
VideoDetailFetch(meets) ==
    [raises |-> FALSE, exc |-> NoException,
     value |-> IF meets \in VideoDetailFailures THEN "None" ELSE meets]

\* a fetch attempt as the run keeps it: the request it belongs to and whether
\* it got a body
Attempt(kind, body) == [kind |-> kind, body |-> body]

\* a request over n attempts: its first k attempts meet the failure `fail`,
\* the later ones get `body`
Attempts(n, k, fail, body) == [a \in 1..n |-> IF a <= k THEN fail ELSE body]

\* a word_list entry: one that passes _validate_hot_list_item, one that fails
\* it, or one that is no mapping at all
ItemKinds == {"valid", "invalid", "malformed"}

\* an entry that fails the validation is assembled all the same
ProcessHotListItemUnvalidated(kind, index, video_detail_max_retries, meets) ==
    LET run == RetryOnFailure(video_detail_max_retries,
                              [a \in DOMAIN meets |-> VideoDetailFetch(meets[a])])
        json == IF run.raised THEN "None" ELSE run.value[1]
    IN  CASE kind # "valid" ->
                [item |-> Some(HotListItem(index, "hot_list_page_url", <<>>)),
                 calls |-> 0, outcome |-> "rejected"]
          [] run.raised \/ json = "text" ->
                [item |-> None, calls |-> run.calls,
                 outcome |-> IF run.raised THEN "raised" ELSE json]
          [] OTHER ->
                [item |-> Some(HotListItem(index,
                                           IF json = "video" THEN "short_url"
                                           ELSE "hot_list_page_url",
                                           IF json = "video" THEN <<"VideoArticle">>
                                           ELSE <<>>)),
                 calls |-> run.calls, outcome |-> json]

\* _process_hot_list_item on the word_list entry `index` of kind `kind`, the
\* video-detail request meeting `meets[a]` on its a-th attempt: the optional
\* HotListItem, the attempts made and how the entry fared ("rejected" before
\* any fetch, the fetch wrapper "raised", or what the fetch returned)
ProcessHotListItem(kind, index, video_detail_max_retries, meets) ==
    LET op    == [a \in DOMAIN meets |-> VideoDetailFetch(meets[a])]
        run   == RetryOnFailure(video_detail_max_retries, op)
        json  == IF run.raised THEN "None" ELSE run.value[1]
        url   == IF json = "video" THEN "short_url" ELSE "hot_list_page_url"
        arts  == IF json = "video" THEN <<"VideoArticle">> ELSE <<>>
    IN  CASE kind = "malformed" ->
                \* the membership test of the validation raises; caught, None
                [item |-> None, calls |-> 0, outcome |-> "rejected"]
          [] kind = "invalid" ->
                [item |-> None, calls |-> 0, outcome |-> "rejected"]
          [] run.raised ->
                \* caught by the method's own except: None
                [item |-> None, calls |-> run.calls, outcome |-> "raised"]
          [] json = "text" ->
                \* video_detail_json.get on a str raises; caught, None
                [item |-> None, calls |-> run.calls, outcome |-> json]
          [] OTHER ->
                [item |-> Some(HotListItem(index, url, arts)),
                 calls |-> run.calls, outcome |-> json]

\* ---------------------------------------------------------------- state
VARIABLES
    config,          \* AppConfig, fixed for the run
    now,             \* the clock, in ticks
    cache,           \* CacheManager._cache
    pc,              \* where crawl() stands
    browser,         \* ChromiumPage objects created, quit() calls, a quit() that raised
    hot_list_json,   \* the optional body _fetch_hot_list_data returned
    hot_items_list,  \* the word_list entries to iterate, as payload indices
    i,               \* the loop index of enumerate(hot_items_list)
    items,           \* hot_list_response.items
    items_processed,
    items_success,
    stats,           \* _request_count, _success_count, _error_count
    attempts,        \* the fetch attempts made, oldest first: the request and
                     \* whether the attempt got a body
    sleeps,          \* time.sleep(request_interval) calls of the item loop
    trace,           \* per processed entry: its index, fetch attempts, how it fared
    download,        \* what the batch download dispatch did
    raised,          \* the optional exception that reached crawl()'s handler
    result,          \* the optional CrawlResult crawl() returned
    manager,         \* a CacheManager used on its own: max_size and ttl
    log,             \* the calls made on a CacheManager or RateLimiter used on
                     \* its own, oldest first
    file,            \* cache.json: the persisted entries, in file order
    limiter,         \* RateLimiter: max_requests, time_window, requests
    item_data,       \* a word_list entry handed to _validate_hot_list_item
    verdict,         \* the optional outcome of that validation
    threads,         \* the threads sharing a RateLimiter or a download pool
    retry_call       \* a call of a retry-wrapped operation: max_retries, the
                     \* operation, and the optional run of the wrapper

vars == <<config, now, cache, pc, browser, hot_list_json, hot_items_list, i, items,
          items_processed, items_success, stats, attempts, sleeps, trace, download, raised, result,
          manager, log, file, limiter, item_data, verdict, threads, retry_call>>

\* what crawl() reads and writes, the clock and the cache apart
crawlVars == <<config, pc, browser, hot_list_json, hot_items_list, i, items,
               items_processed, items_success, stats, attempts, sleeps, trace, download, raised,
               result>>

\* the components crawl() does not touch
componentVars == <<manager, log, file, limiter, item_data, verdict, threads, retry_call>>

Configs ==
    [max_items : 1..MaxItems,
     skip_top_item : BOOLEAN,
     enable_cache : BOOLEAN,
     cache_duration : {CacheDuration},
     hot_list_max_retries : 0..MaxRetries,
     video_detail_max_retries : 0..MaxRetries,
     video_download_enabled : BOOLEAN]

\* a cached item and the values a cache entry written before this run may hold
CachedItem == HotListItem(1, "short_url", <<"VideoArticle">>)
CachedValues == {HotListResponse(<<>>), HotListResponse(<<CachedItem>>), PlainDict}

\* the hot-list key in the format the specification's example gives
\* (hot_list_2025010100_10): no separator between date and hour
ExampleKey(t, max_items) ==
    LET dt == DateTimeNow(t) IN
    "hot_list_" \o Pad4(dt.year) \o Pad2(dt.month) \o Pad2(dt.day) \o Pad2(dt.hour)
        \o "_" \o IntStr(max_items)

\* the cache at construction: empty, or one entry stored at tick 0
InitialCaches ==
    {EmptyCache} \cup
    {[k \in {key} |-> [value |-> v, timestamp |-> 0, seq |-> 1]] :
        key \in {CacheKey(0, n) : n \in 1..MaxItems} \cup {ExampleKey(0, n) : n \in 1..MaxItems},
        v \in CachedValues}

\* the state of a constructed spider before crawl() has done anything
InitSpider ==
    /\ now = 0
    /\ browser = [created |-> 0, quit |-> 0, quit_failed |-> FALSE]
    /\ hot_list_json = None
    /\ hot_items_list = <<>>
    /\ i = 0
    /\ items = <<>>
    /\ items_processed = 0
    /\ items_success = 0
    /\ stats = [request_count |-> 0, success_count |-> 0, error_count |-> 0]
    /\ attempts = <<>>
    /\ sleeps = 0
    /\ trace = <<>>
    /\ download = "not_reached"
    /\ raised = None
    /\ result = None

\* no retry-wrapped operation is called on its own
NoRetryCall == [max_retries |-> 0, op |-> <<>>, run |-> None]

\* no CacheManager is used on its own, and there is no cache file
NoManager == [max_size |-> 0, ttl |-> 0]

\* RateLimiter.__init__: no request recorded
RateLimiter(max_requests, time_window) ==
    [max_requests |-> max_requests, time_window |-> time_window, requests |-> <<>>]

\* no word_list entry is under validation
NoItem == [kind |-> "none"]

\* no thread besides the one running crawl()
NoThreads == <<>>

\* the components as they are when crawl() is what runs: the limiter is the
\* one handed to the spider
SpiderComponents ==
    /\ manager = NoManager
    /\ log = <<>>
    /\ file = <<>>
    /\ limiter = RateLimiter(1, 1)
    /\ item_data = NoItem
    /\ verdict = None
    /\ threads = NoThreads

\* a first run: no cache file yet
Init ==
    /\ config \in Configs
    /\ cache = EmptyCache
    /\ pc = "Start"
    /\ retry_call = NoRetryCall
    /\ SpiderComponents
    /\ InitSpider

\* a run of the default retry and download settings over a cache file an
\* earlier run (or a caller of CacheManager.set) left behind
InitCached ==
    /\ config \in {c \in Configs : /\ c.enable_cache
                                   /\ c.hot_list_max_retries = MaxRetries
                                   /\ c.video_detail_max_retries = MaxRetries
                                   /\ ~c.video_download_enabled}
    /\ cache \in InitialCaches
    /\ pc = "Start"
    /\ retry_call = NoRetryCall
    /\ SpiderComponents
    /\ InitSpider

\* ------------------------------------------------------- crawl(): exits
\* an except clause that catches DouyinSpiderException only: any other
\* exception leaves crawl() without a result
CrawlExceptNarrow(e, processed, success) ==
    IF e.cls \in DouyinSpiderExceptions
    THEN Some(CrawlResult(FALSE, None, Some(Str(e)), processed, success))
    ELSE None

\* an except clause whose result carries no message and counts from zero
CrawlExceptBare(e, processed, success) ==
    Some(CrawlResult(FALSE, None, None, 0, 0))

\* the except clause of crawl(): any Exception becomes a failed CrawlResult
\* carrying the counters reached so far
CrawlExcept(e, processed, success) ==
    Some(CrawlResult(FALSE, None, Some(Str(e)), processed, success))

\* a get_browser without its finally clause
BrowserNeverQuit(b, quit_ok) == b

\* the finally clause of get_browser: quit() is called on the created browser,
\* and a quit() that raises is logged and swallowed
BrowserFinally(b, quit_ok) ==
    IF b.created > 0
    THEN [b EXCEPT !.quit = @ + 1, !.quit_failed = ~quit_ok]
    ELSE b

\* the attempts that got no body left unrecorded
RecordRequestsBodiesOnly(s, calls, ok) ==
    [request_count |-> s.request_count + ok,
     success_count |-> s.success_count + ok,
     error_count |-> s.error_count]

\* record_request once per attempt: `calls` attempts of which `ok` succeeded
RecordRequests(s, calls, ok) ==
    [request_count |-> s.request_count + calls,
     success_count |-> s.success_count + ok,
     error_count |-> s.error_count + (calls - ok)]

\* a return statement inside the with block: the session is torn down, then
\* crawl() returns r
ReturnFromSession(r, quit_ok) ==
    /\ browser' = BrowserFinally(browser, quit_ok)
    /\ result' = Some(r)
    /\ raised' = raised
    /\ pc' = "Done"

\* an exception raised inside the with block: the session is torn down, then
\* the exception reaches crawl()'s handler
RaiseFromSession(e, quit_ok) ==
    /\ browser' = BrowserFinally(browser, quit_ok)
    /\ raised' = Some(e)
    /\ result' = CrawlExcept(e, items_processed, items_success)
    /\ pc' = "Done"

\* ------------------------------------------------------ crawl(): actions
\* time passes; crawl() reads the clock for the cache key and the ttl only
Tick ==
    /\ pc = "Start"
    /\ config.enable_cache
    /\ now < MaxTime
    /\ now' = now + 1
    /\ UNCHANGED componentVars
    /\ UNCHANGED <<config, cache, pc, browser, hot_list_json, hot_items_list, i, items,
                   items_processed, items_success, stats, attempts, sleeps, trace, download,
                   raised, result>>

\* the cache lookup at the start of crawl()
CacheCheck ==
    /\ pc = "Start"
    /\ LET g == CacheGet(cache, CacheKey(now, config.max_items), now, config.cache_duration) IN
       IF config.enable_cache
       THEN /\ cache' = g.cache
            /\ IF IsNone(g.value)
               THEN /\ pc' = "Open"
                    /\ UNCHANGED <<raised, result>>
               ELSE LET cached_data == g.value[1] IN
                    IF cached_data.kind = "HotListResponse"
                    THEN /\ result' = Some(CrawlResult(TRUE, Some(cached_data), None,
                                                       Len(cached_data.items),
                                                       Len(cached_data.items)))
                         /\ pc' = "Done"
                         /\ UNCHANGED raised
                    ELSE \* len(cached_data.items) of a dict raises TypeError
                         /\ raised' = Some(Exc("TypeError", 0))
                         /\ result' = CrawlExcept(Exc("TypeError", 0), items_processed,
                                                  items_success)
                         /\ pc' = "Done"
       ELSE /\ pc' = "Open"
            /\ UNCHANGED <<cache, raised, result>>
    /\ UNCHANGED componentVars
    /\ UNCHANGED <<config, now, browser, hot_list_json, hot_items_list, i, items,
                   items_processed, items_success, stats, attempts, sleeps, trace, download>>

\* with self.get_browser() as browser: ChromiumPage() succeeds or raises
GetBrowser ==
    /\ pc = "Open"
    /\ \E created \in BOOLEAN :
          IF created
          THEN /\ browser' = [browser EXCEPT !.created = @ + 1]
               /\ pc' = "Fetch"
               /\ UNCHANGED <<raised, result>>
          ELSE RaiseFromSession(Exc("Exception", 0), TRUE)
    /\ UNCHANGED componentVars
    /\ UNCHANGED <<config, now, cache, hot_list_json, hot_items_list, i, items,
                   items_processed, items_success, stats, attempts, sleeps, trace, download>>

\* hot_list_json = self._fetch_hot_list_data(browser): the retried request
FetchHotList ==
    /\ pc = "Fetch"
    /\ \E k \in 0..config.hot_list_max_retries, fail \in HotListFailures,
          body \in HotListBodies, quit_ok \in BOOLEAN :
          \* a request that never fails meets no failure: one choice stands for all
          /\ (k = 0) => (fail = "timeout")
          /\ LET meets == Attempts(config.hot_list_max_retries, k, fail, "body")
                 op  == [a \in DOMAIN meets |-> HotListFetch(meets[a], body, a)]
                 run == RetryOnFailure(config.hot_list_max_retries, op)
             IN  /\ stats' = RecordRequests(stats, run.calls, IF run.raised THEN 0 ELSE 1)
                 /\ attempts' = attempts \o [a \in 1..run.calls |->
                                                Attempt("hot_list", meets[a] = "body")]
                 /\ IF run.raised
                    THEN /\ RaiseFromSession(HandleExceptions(run.exc), quit_ok)
                         /\ UNCHANGED hot_list_json
                    ELSE /\ hot_list_json' = run.value
                         /\ pc' = "Parse"
                         /\ UNCHANGED <<browser, raised, result>>
    /\ UNCHANGED componentVars
    /\ UNCHANGED <<config, now, cache, hot_items_list, i, items, items_processed,
                   items_success, sleeps, trace, download>>

\* the first entry dropped even from a list of one
SelectItemsAlwaysSkip(n, skip_top_item) ==
    LET word_list == [j \in 1..n |-> j] IN
    IF skip_top_item THEN SubSeq(word_list, 2, n) ELSE word_list

\* the entries crawl() iterates: the first one dropped when skip_top_item is
\* set and the list has more than one entry
SelectItems(n, skip_top_item) ==
    LET word_list == [j \in 1..n |-> j] IN
    IF skip_top_item /\ n > 1 THEN SubSeq(word_list, 2, n) ELSE word_list

\* the checks of the fetched payload, up to the selection of the entries
ParsePayload ==
    /\ pc = "Parse"
    /\ \E quit_ok \in BOOLEAN :
          LET json == hot_list_json[1]
              fail(msg) == ReturnFromSession(CrawlResult(FALSE, None, Some(msg), 0, 0), quit_ok)
          IN  CASE json.shape = "falsy" ->
                      fail("fetch_failed") /\ UNCHANGED hot_items_list
                [] json.shape = "text" ->
                      \* hot_list_json.get on a str raises AttributeError
                      RaiseFromSession(Exc("AttributeError", 0), quit_ok)
                        /\ UNCHANGED hot_items_list
                [] json.data = "absent" ->
                      fail("missing_data_field") /\ UNCHANGED hot_items_list
                [] json.data = "text" ->
                      \* hot_list_data.get on a non-mapping raises AttributeError
                      RaiseFromSession(Exc("AttributeError", 0), quit_ok)
                        /\ UNCHANGED hot_items_list
                [] json.word_list = 0 ->
                      fail("empty_hot_list") /\ UNCHANGED hot_items_list
                [] OTHER ->
                      /\ hot_items_list' = SelectItems(json.word_list, config.skip_top_item)
                      /\ pc' = "Loop"
                      /\ UNCHANGED <<browser, raised, result>>
    /\ UNCHANGED componentVars
    /\ UNCHANGED <<config, now, cache, hot_list_json, i, items, items_processed,
                   items_success, stats, attempts, sleeps, trace, download>>

\* whether the for loop runs its body once more
LoopContinues == i < Len(hot_items_list) /\ i < config.max_items

\* one pass of the item loop
ProcessItem ==
    /\ pc = "Loop"
    /\ LoopContinues
    /\ \E kind \in ItemKinds, k \in 0..config.video_detail_max_retries,
          fail \in VideoDetailFailures, body \in VideoDetailBodies :
          \* no request is made for an entry that is not valid, and a request
          \* that never fails meets no failure: one choice stands for all
          /\ (kind # "valid") => (k = 0 /\ body = "video")
          /\ (k = 0) => (fail = "timeout")
          /\ LET meets == Attempts(config.video_detail_max_retries, k, fail, body)
                 index == hot_items_list[i + 1]
                 r == ProcessHotListItem(kind, index, config.video_detail_max_retries, meets)
                 ok == IF r.outcome \in VideoDetailBodies THEN 1 ELSE 0
             IN  /\ items_processed' = items_processed + 1
                 /\ items' = IF IsNone(r.item) THEN items ELSE Append(items, r.item[1])
                 /\ items_success' = IF IsNone(r.item) THEN items_success
                                     ELSE items_success + 1
                 /\ stats' = RecordRequests(stats, r.calls, IF r.calls = 0 THEN 0 ELSE ok)
                 /\ attempts' = attempts \o [a \in 1..r.calls |->
                                                Attempt("video_detail",
                                                        meets[a] \in VideoDetailBodies)]
                 /\ trace' = Append(trace, [index |-> index, calls |-> r.calls,
                                            outcome |-> r.outcome])
                 /\ sleeps' = IF i < Len(hot_items_list) - 1 THEN sleeps + 1 ELSE sleeps
    /\ i' = i + 1
    /\ UNCHANGED componentVars
    /\ UNCHANGED <<config, now, cache, pc, browser, hot_list_json, hot_items_list,
                   download, raised, result>>

\* a batch download dispatch whose failure is not caught
DownloadVideosUncaught ==
    /\ pc = "Loop"
    /\ ~LoopContinues
    /\ IF config.video_download_enabled /\ items # <<>>
       THEN IF \E k \in 1..Len(items) : items[k].articles # <<>>
            THEN \E ok \in BOOLEAN :
                    IF ok
                    THEN /\ download' = "done"
                         /\ pc' = "Store"
                         /\ UNCHANGED <<browser, raised, result>>
                    ELSE /\ download' = "failed"
                         /\ RaiseFromSession(Exc("Exception", 0), TRUE)
            ELSE /\ download' = "no_videos"
                 /\ pc' = "Store"
                 /\ UNCHANGED <<browser, raised, result>>
       ELSE /\ download' = "off"
            /\ pc' = "Store"
            /\ UNCHANGED <<browser, raised, result>>
    /\ UNCHANGED componentVars
    /\ UNCHANGED <<config, now, cache, hot_list_json, hot_items_list, i, items,
                   items_processed, items_success, stats, attempts, sleeps, trace>>

\* after the loop: the batch download dispatch, whose failure is caught inside
\* _download_videos_from_items
DownloadVideos ==
    /\ pc = "Loop"
    /\ ~LoopContinues
    /\ IF config.video_download_enabled /\ items # <<>>
       THEN IF \E k \in 1..Len(items) : items[k].articles # <<>>
            THEN \E ok \in BOOLEAN : download' = IF ok THEN "done" ELSE "failed"
            ELSE download' = "no_videos"
       ELSE download' = "off"
    /\ pc' = "Store"
    /\ UNCHANGED componentVars
    /\ UNCHANGED <<config, now, cache, browser, hot_list_json, hot_items_list, i, items,
                   items_processed, items_success, stats, attempts, sleeps, trace, raised, result>>

\* the cache written by a crawl that then reports a failure
CacheStoreThenFail ==
    /\ pc = "Store"
    /\ cache' = IF config.enable_cache
                THEN CacheSet(cache, CacheKey(now, config.max_items),
                              HotListResponse(items), now, CacheMaxSize)
                ELSE cache
    /\ \E quit_ok \in BOOLEAN :
          ReturnFromSession(CrawlResult(FALSE, None, Some("Exception"),
                                        items_processed, items_success), quit_ok)
    /\ UNCHANGED componentVars
    /\ UNCHANGED <<config, now, hot_list_json, hot_items_list, i, items,
                   items_processed, items_success, stats, attempts, sleeps, trace, download>>

\* a store that skips a response without items
CacheStoreNonEmpty ==
    /\ pc = "Store"
    /\ cache' = IF config.enable_cache /\ items # <<>>
                THEN CacheSet(cache, CacheKey(now, config.max_items),
                              HotListResponse(items), now, CacheMaxSize)
                ELSE cache
    /\ \E quit_ok \in BOOLEAN :
          ReturnFromSession(CrawlResult(TRUE, Some(HotListResponse(items)), None,
                                        items_processed, items_success), quit_ok)
    /\ UNCHANGED componentVars
    /\ UNCHANGED <<config, now, hot_list_json, hot_items_list, i, items,
                   items_processed, items_success, stats, attempts, sleeps, trace, download>>

\* the cache store and the successful return
CacheStore ==
    /\ pc = "Store"
    /\ cache' = IF config.enable_cache
                THEN CacheSet(cache, CacheKey(now, config.max_items),
                              HotListResponse(items), now, CacheMaxSize)
                ELSE cache
    /\ \E quit_ok \in BOOLEAN :
          ReturnFromSession(CrawlResult(TRUE, Some(HotListResponse(items)), None,
                                        items_processed, items_success), quit_ok)
    /\ UNCHANGED componentVars
    /\ UNCHANGED <<config, now, hot_list_json, hot_items_list, i, items,
                   items_processed, items_success, stats, attempts, sleeps, trace, download>>

Next ==
    \/ Tick
    \/ CacheCheck
    \/ GetBrowser
    \/ FetchHotList
    \/ ParsePayload
    \/ ProcessItem
    \/ DownloadVideos
    \/ CacheStore

Spec == Init /\ [][Next]_vars

SpecCached == InitCached /\ [][Next]_vars

\* ------------------------------------------------ the retry wrapper alone
\* what an invocation of an arbitrary wrapped operation does: throw one of
\* two exceptions or return one of two values
OperationOutcomes(a) ==
    {[raises |-> TRUE, exc |-> Exc(cls, a), value |-> "none"] :
        cls \in {"TimeoutError", "ValueError"}}
    \cup {[raises |-> FALSE, exc |-> NoException, value |-> v] : v \in {"a", "b"}}

\* the operations: one outcome per invocation, one invocation more than the
\* largest max_retries
Operations ==
    {op \in [1..(MaxRetries + 1) -> UNION {OperationOutcomes(a) : a \in 1..(MaxRetries + 1)}] :
        \A a \in DOMAIN op : op[a] \in OperationOutcomes(a)}

InitRetry ==
    /\ config = CHOOSE c \in Configs : TRUE
    /\ cache = EmptyCache
    /\ pc = "Idle"
    /\ InitSpider
    /\ SpiderComponents
    /\ retry_call \in [max_retries : 0..MaxRetries, op : Operations, run : {None}]

\* wrapper(): the decorated operation is called
RetryCall ==
    /\ pc = "Idle"
    /\ IsNone(retry_call.run)
    /\ retry_call' = [retry_call EXCEPT
                        !.run = Some(RetryOnFailure(retry_call.max_retries, retry_call.op))]
    /\ UNCHANGED <<now, cache, crawlVars>>
    /\ UNCHANGED <<manager, log, file, limiter, item_data, verdict, threads>>

SpecRetry == InitRetry /\ [][RetryCall]_vars

\* ------------------------------------------------ the CacheManager alone
\* the largest max_size
MaxSize == 2
\* the number of calls made on the manager
MaxCalls == 4

\* the keys: one more than the largest max_size
KeyName(n) == "k" \o IntStr(n)
CacheKeys == {KeyName(n) : n \in 1..(MaxSize + 1)}
KeyNumber(key) == CHOOSE n \in 1..(MaxSize + 1) : KeyName(n) = key

\* keys are interchangeable: a call names a key named before, or the first
\* key not named yet
NamedKeys == {log[j].key : j \in {m \in 1..Len(log) : log[m].op \in {"set", "get"}}}
CallableKeys ==
    {key \in CacheKeys : \A n \in 1..(KeyNumber(key) - 1) : KeyName(n) \in NamedKeys}

\* CacheManager.clear
CacheClear(c) == EmptyCache

\* the keys cleanup_expired collects
ExpiredKeys(c, t, ttl) == {k \in DOMAIN c : t - c[k].timestamp >= ttl}

\* CacheManager.cleanup_expired: the map without its expired entries
CacheCleanupExpired(c, t, ttl) ==
    LET d == [k \in (DOMAIN c) \ ExpiredKeys(c, t, ttl) |-> c[k]]
    IN  [k \in DOMAIN d |-> [d[k] EXCEPT !.seq = Position(d, k)]]

\* a call on the manager as the log keeps it: the operation, its arguments,
\* the time of the call, what it returned and the map it left
CacheCall(op, key, value, at, returned, removed, after) ==
    [op |-> op, key |-> key, value |-> value, at |-> at, returned |-> returned,
     removed |-> removed, after |-> after]

\* a manager without persistence, just constructed
InitCache ==
    /\ config = CHOOSE c \in Configs : TRUE
    /\ pc = "Idle"
    /\ InitSpider
    /\ cache = EmptyCache
    /\ manager \in [max_size : 1..MaxSize, ttl : {1, MaxTime}]
    /\ log = <<>>
    /\ file = <<>>
    /\ limiter = RateLimiter(1, 1)
    /\ item_data = NoItem
    /\ verdict = None
    /\ threads = NoThreads
    /\ retry_call = NoRetryCall

\* the frame of a call on the manager
CacheFrame == UNCHANGED <<crawlVars, manager, file, limiter, item_data, verdict, threads, retry_call>>

\* set(key, value) at some later time; the value differs from the one the
\* key holds
Set ==
    /\ pc = "Idle"
    /\ Len(log) < MaxCalls
    /\ \E t \in now..MaxTime, key \in CallableKeys :
          LET value == IF key \in DOMAIN cache /\ cache[key].value = "a" THEN "b" ELSE "a"
              after == CacheSet(cache, key, value, t, manager.max_size)
          IN  /\ now' = t
              /\ cache' = after
              /\ log' = Append(log, CacheCall("set", key, Some(value), t, None, 0, after))
    /\ CacheFrame

\* get(key) at some later time
Get ==
    /\ pc = "Idle"
    /\ Len(log) < MaxCalls
    /\ \E t \in now..MaxTime, key \in CallableKeys :
          LET g == CacheGet(cache, key, t, manager.ttl)
          IN  /\ now' = t
              /\ cache' = g.cache
              /\ log' = Append(log, CacheCall("get", key, None, t, g.value, 0, g.cache))
    /\ CacheFrame

\* clear(); the time that passes before it passes before the next call
Clear ==
    /\ pc = "Idle"
    /\ Len(log) < MaxCalls
    /\ now' = now
    /\ cache' = CacheClear(cache)
    /\ log' = Append(log, CacheCall("clear", "", None, now, None, 0, CacheClear(cache)))
    /\ CacheFrame

\* cleanup_expired() at some later time
CleanupExpired ==
    /\ pc = "Idle"
    /\ Len(log) < MaxCalls
    /\ \E t \in now..MaxTime :
          LET after == CacheCleanupExpired(cache, t, manager.ttl)
          IN  /\ now' = t
              /\ cache' = after
              /\ log' = Append(log, CacheCall("cleanup_expired", "", None, t, None,
                                              Cardinality(ExpiredKeys(cache, t, manager.ttl)),
                                              after))
    /\ CacheFrame

NextCache == Set \/ Get \/ Clear \/ CleanupExpired

SpecCache == InitCache /\ [][NextCache]_vars

\* ------------------------------------------- the cache file and its loading
\* the number of entries of cache.json
MaxFileLen == 2

\* Plain data, as json.load returns it.  A persisted value is
\*   [json, list, fetch_time]
\* json: "object" is a dict with the keys list, total_count and fetch_time,
\* "other" another dict, "null" None, "number" a number; a date field is
\* "iso" (an ISO date), "null", or "bad" (a string fromisoformat rejects).
PlainItem(location, list_url, article, created_at) ==
    [location |-> location, list_url |-> list_url, article |-> article,
     created_at |-> created_at]
PlainValue(json, list, fetch_time) ==
    [json |-> json, list |-> list, fetch_time |-> fetch_time]

\* restore_hot_item: raises when created_at is no ISO date
RestoreHotItem(plain) ==
    HotListItem(plain.location, plain.list_url, plain.article)

\* _restore_object: the optional value returned.  Whatever is raised on the
\* way is caught and the plain data itself is returned; None comes back as
\* None.
RestoreObject(data) ==
    CASE data.json = "null" -> None
      [] data.json = "number" -> Some([kind |-> "number", items |-> <<>>])
      [] data.json = "other" -> Some(PlainDict)
      [] data.json = "object" ->
            IF \/ data.fetch_time = "bad"
               \/ \E j \in 1..Len(data.list) : data.list[j].created_at = "bad"
            THEN Some(PlainDict)
            ELSE Some(HotListResponse([j \in 1..Len(data.list) |->
                                          RestoreHotItem(data.list[j])]))

\* the loop of _load_from_file from entry j on: an entry whose timestamp is
\* no number ends the loading, an expired entry and a None are passed over
RECURSIVE LoadEntries(_, _, _, _, _)
LoadEntries(entries, j, c, t, ttl) ==
    IF j > Len(entries) THEN c
    ELSE LET item == entries[j] IN
         IF IsNone(item.timestamp) THEN c
         ELSE IF t - item.timestamp[1] < ttl /\ ~IsNone(RestoreObject(item.value))
              THEN LoadEntries(entries, j + 1,
                               [k \in (DOMAIN c) \cup {item.key} |->
                                   IF k = item.key
                                   THEN [value |-> RestoreObject(item.value)[1],
                                         timestamp |-> item.timestamp[1],
                                         seq |-> Cardinality(DOMAIN c) + 1]
                                   ELSE c[k]],
                               t, ttl)
              ELSE LoadEntries(entries, j + 1, c, t, ttl)

\* the persisted values: responses of no or one item, whole or with a date
\* that does not parse, and values that are no response
FileItems == {PlainItem(1, "short_url", <<"VideoArticle">>, d) : d \in {"iso", "bad"}}
FileValues ==
    {PlainValue("object", l, d) :
        l \in {<<>>} \cup {<<it>> : it \in FileItems}, d \in {"iso", "bad"}}
    \cup {PlainValue(j, <<>>, "null") : j \in {"other", "null", "number"}}

\* the entries a file may hold under a key: a value and a timestamp that is
\* a time not after the construction, or no number
FileEntries(key) ==
    [key : {key}, value : FileValues,
     timestamp : {None} \cup {Some(0 - a) : a \in 0..MaxTime}]

\* the files: up to MaxFileLen entries, under the keys k1, k2, ...
RECURSIVE Files(_)
Files(n) ==
    IF n = 0 THEN {<<>>}
    ELSE Files(n - 1) \cup
         {Append(f, e) : f \in {g \in Files(n - 1) : Len(g) = n - 1},
                         e \in FileEntries(KeyName(n))}

\* a manager about to be constructed over a cache file
InitLoad ==
    /\ config = CHOOSE c \in Configs : TRUE
    /\ pc = "Idle"
    /\ InitSpider
    /\ cache = EmptyCache
    /\ manager \in [max_size : {1, CacheMaxSize}, ttl : {1, MaxTime}]
    /\ log = <<>>
    /\ file \in Files(MaxFileLen)
    /\ limiter = RateLimiter(1, 1)
    /\ item_data = NoItem
    /\ verdict = None
    /\ threads = NoThreads
    /\ retry_call = NoRetryCall

\* CacheManager.__init__ with persistence: _load_from_file
LoadFromFile ==
    /\ pc = "Idle"
    /\ log = <<>>
    /\ LET loaded == LoadEntries(file, 1, EmptyCache, now, manager.ttl)
       IN  /\ cache' = loaded
           /\ log' = <<CacheCall("load", "", None, now, None, 0, loaded)>>
    /\ UNCHANGED <<now, crawlVars, manager, file, limiter, item_data, verdict, threads, retry_call>>

SpecLoad == InitLoad /\ [][LoadFromFile]_vars

\* --------------------------------------------------------- the rate limiter
\* the largest max_requests and time_window of a limiter
MaxRequests == 2
MaxWindow == 2

\* the recorded requests that are still inside the window at time t
LiveRequests(l, t) ==
    SelectSeq(l.requests, LAMBDA req_time : t - req_time < l.time_window)

\* the same with the purge keeping a request one tick longer
CanProceedLatePurge(l, t) ==
    LET live == SelectSeq(l.requests, LAMBDA req_time : t - req_time <= l.time_window)
    IN  IF Len(live) < l.max_requests
        THEN [value |-> TRUE, limiter |-> [l EXCEPT !.requests = Append(live, t)]]
        ELSE [value |-> FALSE, limiter |-> [l EXCEPT !.requests = live]]

\* RateLimiter.can_proceed at time t: the answer and the limiter it leaves
CanProceed(l, t) ==
    LET live == LiveRequests(l, t)
    IN  IF Len(live) < l.max_requests
        THEN [value |-> TRUE, limiter |-> [l EXCEPT !.requests = Append(live, t)]]
        ELSE [value |-> FALSE, limiter |-> [l EXCEPT !.requests = live]]

\* min(self.requests)
OldestRequest(l) ==
    CHOOSE r \in {l.requests[j] : j \in 1..Len(l.requests)} :
        \A j \in 1..Len(l.requests) : r <= l.requests[j]

\* RateLimiter.wait_if_needed called at time t, the clock being read again at
\* t2 when can_proceed refused: the time slept, the time at which the caller
\* goes on, and the limiter left
WaitIfNeeded(l, t, t2) ==
    LET r == CanProceed(l, t)
        wait_time == l.time_window - (t2 - OldestRequest(r.limiter))
    IN  IF r.value
        THEN [admitted |-> TRUE, returned |-> 0, proceeds |-> t, limiter |-> r.limiter]
        ELSE IF wait_time > 0
             THEN [admitted |-> FALSE, returned |-> wait_time,
                   proceeds |-> t2 + wait_time, limiter |-> r.limiter]
             ELSE [admitted |-> FALSE, returned |-> 0, proceeds |-> t2,
                   limiter |-> r.limiter]

\* a call on the limiter as the log keeps it: the operation, the time of the
\* call, the answer of can_proceed, the requests recorded before and after,
\* the time at which the caller goes on (none after a refusal of can_proceed)
\* and the time waited
LimiterCall(op, at, admitted, requests, after, proceeds, returned) ==
    [op |-> op, at |-> at, admitted |-> admitted, requests |-> requests,
     after |-> after, proceeds |-> proceeds, returned |-> returned]

\* a limiter just constructed
InitLimiter ==
    /\ config = CHOOSE c \in Configs : TRUE
    /\ pc = "Idle"
    /\ InitSpider
    /\ cache = EmptyCache
    /\ manager = NoManager
    /\ log = <<>>
    /\ file = <<>>
    /\ limiter \in {RateLimiter(n, w) : n \in 1..MaxRequests, w \in 1..MaxWindow}
    /\ item_data = NoItem
    /\ verdict = None
    /\ threads = NoThreads
    /\ retry_call = NoRetryCall

\* the frame of a call on the limiter
LimiterFrame == UNCHANGED <<crawlVars, cache, manager, file, item_data, verdict, threads, retry_call>>

\* can_proceed() at some later time
Admit ==
    /\ pc = "Idle"
    /\ Len(log) < MaxCalls
    /\ \E t \in now..MaxTime :
          LET r == CanProceed(limiter, t)
          IN  /\ now' = t
              /\ limiter' = r.limiter
              /\ log' = Append(log, LimiterCall("can_proceed", t, r.value,
                                                limiter.requests, r.limiter.requests,
                                                IF r.value THEN Some(t) ELSE None, 0))
    /\ LimiterFrame

\* wait_if_needed() at some later time; the caller goes on when it returns
Wait ==
    /\ pc = "Idle"
    /\ Len(log) < MaxCalls
    /\ \E t \in now..MaxTime, t2 \in now..MaxTime :
          LET w == WaitIfNeeded(limiter, t, t2)
          IN  /\ t <= t2
              /\ CanProceed(limiter, t).value => t2 = t
              /\ w.proceeds <= MaxTime
              /\ now' = w.proceeds
              /\ limiter' = w.limiter
              /\ log' = Append(log, LimiterCall("wait_if_needed", t, w.admitted,
                                                limiter.requests, w.limiter.requests,
                                                Some(w.proceeds), w.returned))
    /\ LimiterFrame

NextLimiter == Admit \/ Wait

SpecLimiter == InitLimiter /\ [][NextLimiter]_vars

\* ------------------------------------------------------ the item validation
\* the numbers of a payload go from -MaxHalves/2 to MaxHalves/2 by halves
MaxHalves == 2

\* the longest title the validation accepts
MaxTitleLength == 200

\* A value of a word_list entry as json.loads returns it:
\*   "missing" the key is absent, "null" None, "list" a list,
\*   "number" the number n/2,
\*   "string" a text of n characters other than white space with `pad`
\*            characters of white space around it (never the text of a number)
JsonValue(type, n, pad) == [type |-> type, n |-> n, pad |-> pad]

\* field not in item or item[field] is None
Absent(v) == v.type \in {"missing", "null"}

\* int(v) raises ValueError or TypeError
IntRaises(v) == v.type \in {"string", "list"}

\* int(v) of a number: the fraction is dropped, toward zero
IntOf(v) == IF v.n >= 0 THEN v.n \div 2 ELSE 0 - ((0 - v.n) \div 2)

\* str.strip and len of a string
Strip(v) == [v EXCEPT !.pad = 0]
StrLen(v) == v.n + v.pad

RequiredFields == {"sentence_id", "word", "position", "hot_value", "view_count"}

\* the validation with the position tested by < instead of <=
ValidateHotListItemZeroPosition(item) ==
    IF \E field \in RequiredFields : Absent(item[field]) THEN FALSE
    ELSE IF \E field \in {"position", "hot_value", "view_count"} : IntRaises(item[field])
    THEN FALSE
    ELSE IF IntOf(item.position) < 0 \/ IntOf(item.hot_value) < 0 \/ IntOf(item.view_count) < 0
    THEN FALSE
    ELSE IF StrLen(Strip(item.word)) = 0 \/ StrLen(Strip(item.word)) > MaxTitleLength
    THEN FALSE
    ELSE TRUE

\* DouyinSpider._validate_hot_list_item
ValidateHotListItem(item) ==
    IF \E field \in RequiredFields : Absent(item[field]) THEN FALSE
    ELSE IF \E field \in {"position", "hot_value", "view_count"} : IntRaises(item[field])
    THEN FALSE
    ELSE IF IntOf(item.position) <= 0 \/ IntOf(item.hot_value) < 0 \/ IntOf(item.view_count) < 0
    THEN FALSE
    ELSE IF StrLen(Strip(item.word)) = 0 \/ StrLen(Strip(item.word)) > MaxTitleLength
    THEN FALSE
    ELSE TRUE

\* the values of sentence_id, of word and of the three numbers
IdValues == {JsonValue("missing", 0, 0), JsonValue("null", 0, 0), JsonValue("string", 1, 0)}
WordValues ==
    {JsonValue("missing", 0, 0), JsonValue("null", 0, 0)}
    \cup {JsonValue("string", n, pad) :
             n \in {0, 1, MaxTitleLength, MaxTitleLength + 1}, pad \in 0..1}
NumberValues ==
    {JsonValue(type, 0, 0) : type \in {"missing", "null", "list"}}
    \cup {JsonValue("string", 1, 0)}
    \cup {JsonValue("number", n, 0) : n \in (0 - MaxHalves)..MaxHalves}

\* the word_list entries
ItemData ==
    [sentence_id : IdValues, word : WordValues, position : NumberValues,
     hot_value : NumberValues, view_count : NumberValues]

\* a spider about to process one word_list entry
InitValidate ==
    /\ config = CHOOSE c \in Configs : TRUE
    /\ pc = "Idle"
    /\ InitSpider
    /\ cache = EmptyCache
    /\ manager = NoManager
    /\ log = <<>>
    /\ file = <<>>
    /\ limiter = RateLimiter(1, 1)
    /\ item_data \in ItemData
    /\ verdict = None
    /\ threads = NoThreads
    /\ retry_call = NoRetryCall

\* _process_hot_list_item on the entry, the video-detail request answering at
\* once: what the validation said, the requests made and the item built
ProcessItemData ==
    /\ pc = "Idle"
    /\ IsNone(verdict)
    /\ LET valid == ValidateHotListItem(item_data)
           r == ProcessHotListItem(IF valid THEN "valid" ELSE "invalid", 1, 1,
                                   Attempts(1, 0, "timeout", "video"))
       IN  verdict' = Some([valid |-> valid, calls |-> r.calls, item |-> r.item])
    /\ UNCHANGED <<now, cache, crawlVars, manager, log, file, limiter, item_data, threads, retry_call>>

SpecValidate == InitValidate /\ [][ProcessItemData]_vars

\* ------------------------------------------------------- the title cleaning
\* the number of runs of a word
MaxRuns == 3

\* A text is a sequence of runs [cls, count] of `count` characters of one
\* class: "c" a visible character, " " a space, "n" a newline, carriage
\* return or tab, "z" a zero-width space or a byte-order mark.
Run(cls, count) == [cls |-> cls, count |-> count]

\* str.isspace: the classes str.strip() removes and \s matches
IsSpace(cls) == cls \in {" ", "n"}

RECURSIVE TextLen(_)
TextLen(text) == IF text = <<>> THEN 0 ELSE Head(text).count + TextLen(Tail(text))

\* str.strip()
RECURSIVE LStrip(_)
LStrip(text) ==
    IF text # <<>> /\ IsSpace(Head(text).cls) THEN LStrip(Tail(text)) ELSE text
RECURSIVE RStrip(_)
RStrip(text) ==
    IF text # <<>> /\ IsSpace(text[Len(text)].cls)
    THEN RStrip(SubSeq(text, 1, Len(text) - 1))
    ELSE text
StripText(text) == RStrip(LStrip(text))

\* the replacements of clean_text: newline, carriage return and tab become a
\* space, the zero-width space and the byte-order mark go
RECURSIVE ReplaceSpecial(_)
ReplaceSpecial(text) ==
    IF text = <<>> THEN <<>>
    ELSE IF Head(text).cls = "z" THEN ReplaceSpecial(Tail(text))
    ELSE IF Head(text).cls = "n"
         THEN <<Run(" ", Head(text).count)>> \o ReplaceSpecial(Tail(text))
         ELSE <<Head(text)>> \o ReplaceSpecial(Tail(text))

\* re.sub(r'\s+', ' ', text)
RECURSIVE CollapseSpaces(_)
CollapseSpaces(text) ==
    IF text = <<>> THEN <<>>
    ELSE IF IsSpace(Head(text).cls)
         THEN <<Run(" ", 1)>> \o CollapseSpaces(LStrip(text))
         ELSE <<Head(text)>> \o CollapseSpaces(Tail(text))

\* BaseSpider.clean_text
CleanText(text) == StripText(CollapseSpaces(ReplaceSpecial(StripText(text))))

\* the word as the validation sees it: its characters other than the white
\* space around it, and that white space
WordOf(text) ==
    JsonValue("string", TextLen(StripText(text)), TextLen(text) - TextLen(StripText(text)))

\* the runs of a word: visible characters by one or by MaxTitleLength, the
\* other classes by one
Runs ==
    {Run("c", 1), Run("c", MaxTitleLength), Run(" ", 1), Run("n", 1), Run("z", 1)}
RECURSIVE Texts(_)
Texts(n) ==
    IF n = 0 THEN {<<>>}
    ELSE Texts(n - 1) \cup
         {Append(t, r) : t \in {u \in Texts(n - 1) : Len(u) = n - 1}, r \in Runs}

\* the numbers of an entry
Numbers == {JsonValue("number", n, 0) : n \in (0 - MaxHalves)..MaxHalves}

\* the word_list entries with all their fields, the word given by its text
TextItems ==
    {[sentence_id |-> JsonValue("string", 1, 0), word |-> WordOf(text),
      position |-> p, hot_value |-> h, view_count |-> v, text |-> text] :
        text \in Texts(MaxRuns), p \in Numbers, h \in Numbers, v \in Numbers}

\* the fields _process_hot_list_item stores in the HotListItem it builds
StoredFields(item) ==
    [position |-> IntOf(item.position), title |-> CleanText(item.text),
     popularity |-> IntOf(item.hot_value), views |-> IntOf(item.view_count)]

\* a spider about to process one word_list entry with a text for its word
InitClean ==
    /\ config = CHOOSE c \in Configs : TRUE
    /\ pc = "Idle"
    /\ InitSpider
    /\ cache = EmptyCache
    /\ manager = NoManager
    /\ log = <<>>
    /\ file = <<>>
    /\ limiter = RateLimiter(1, 1)
    /\ item_data \in TextItems
    /\ verdict = None
    /\ threads = NoThreads
    /\ retry_call = NoRetryCall

\* _process_hot_list_item on the entry, the video-detail request answering at
\* once: what the validation said, the requests made, the item built and the
\* fields stored in it
ProcessTextItem ==
    /\ pc = "Idle"
    /\ IsNone(verdict)
    /\ LET valid == ValidateHotListItem(item_data)
           r == ProcessHotListItem(IF valid THEN "valid" ELSE "invalid", 1, 1,
                                   Attempts(1, 0, "timeout", "video"))
       IN  verdict' = Some([valid |-> valid, calls |-> r.calls, item |-> r.item,
                            fields |-> IF IsNone(r.item) THEN None
                                       ELSE Some(StoredFields(item_data))])
    /\ UNCHANGED <<now, cache, crawlVars, manager, log, file, limiter, item_data, threads, retry_call>>

SpecClean == InitClean /\ [][ProcessTextItem]_vars

\* ---------------------------------------------------- the nested extraction
\* the number of characters of a string of a video-detail payload
MaxUrlLen == 2

\* A JSON value of a video-detail payload: [type, kids, text].
\*   "dict"  kids is the sequence of its [key, value] pairs
\*   "list"  kids is the sequence of its elements, as [key |-> "", value]
\*   "str"   text is the sequence of its characters
\*   "null", "num"  None and a number other than 0
\* A character is "h" (standing for the prefix http:// or https://), "c" an
\* ordinary character, "<" one of the characters sanitize_url removes, " " a
\* space, "n" a newline or tab (white space that sanitize_url removes too).
Json(type, kids, text) == [type |-> type, kids |-> kids, text |-> text]
JsonNull == Json("null", <<>>, <<>>)
JsonNum == Json("num", <<>>, <<>>)
JsonStr(text) == Json("str", <<>>, text)
JsonList(elems) == Json("list", [j \in 1..Len(elems) |-> [key |-> "", value |-> elems[j]]], <<>>)
JsonDict(pairs) == Json("dict", pairs, <<>>)
Pair(key, value) == [key |-> key, value |-> value]

\* a step of a path: a key or an index
Key(name) == [name |-> name, index |-> 0 - 1]
Index(n) == [name |-> "", index |-> n]
IsKey(step) == step.index < 0

\* result[key]: the value, or the exception raised
Got(value) == [raised |-> "", value |-> value]
Raises(cls) == [raised |-> cls, value |-> JsonNull]
GetItem(v, step) ==
    CASE v.type = "dict" ->
            IF IsKey(step) /\ \E j \in 1..Len(v.kids) : v.kids[j].key = step.name
            THEN Got(v.kids[CHOOSE j \in 1..Len(v.kids) : v.kids[j].key = step.name].value)
            ELSE Raises("KeyError")
      [] v.type = "list" ->
            IF IsKey(step) THEN Raises("TypeError")
            ELSE IF step.index < Len(v.kids) THEN Got(v.kids[step.index + 1].value)
            ELSE Raises("IndexError")
      [] v.type = "str" ->
            IF IsKey(step) THEN Raises("TypeError")
            ELSE IF step.index < Len(v.text)
                 THEN Got(JsonStr(<<IF v.text[step.index + 1] = "h" THEN "c"
                                    ELSE v.text[step.index + 1]>>))
            ELSE Raises("IndexError")
      [] OTHER -> Raises("TypeError")

\* the loop of safe_get_nested_value from step j on
RECURSIVE GetNested(_, _, _)
GetNested(v, keys, j) ==
    IF j > Len(keys) THEN Got(v)
    ELSE LET r == GetItem(v, keys[j])
         IN  IF r.raised # "" THEN r ELSE GetNested(r.value, keys, j + 1)

\* safe_get_nested_value letting IndexError through
SafeGetNestedValueKeyOnly(data, keys, default) ==
    LET r == GetNested(data, keys, 1)
    IN  IF r.raised \in {"KeyError", "TypeError"} THEN Got(default) ELSE r

\* BaseSpider.safe_get_nested_value
SafeGetNestedValue(data, keys, default) ==
    LET r == GetNested(data, keys, 1)
    IN  IF r.raised \in {"KeyError", "IndexError", "TypeError"} THEN Got(default) ELSE r

\* bool(v)
Truthy(v) ==
    CASE v.type = "null" -> FALSE
      [] v.type = "str" -> v.text # <<>>
      [] v.type \in {"dict", "list"} -> v.kids # <<>>
      [] OTHER -> TRUE

\* str.strip() of a sequence of characters
RECURSIVE StripChars(_)
StripChars(s) ==
    IF s # <<>> /\ s[1] \in {" ", "n"} THEN StripChars(Tail(s))
    ELSE IF s # <<>> /\ s[Len(s)] \in {" ", "n"} THEN StripChars(SubSeq(s, 1, Len(s) - 1))
    ELSE s

\* BaseSpider.sanitize_url: the text of the URL; str() of a value that is no
\* string never starts with http
SanitizeUrl(url) ==
    LET text == IF url.type = "str" THEN StripChars(url.text) ELSE <<"c">>
    IN  IF text = <<>> \/ text[1] # "h" THEN <<>>
        ELSE SelectSeq(text, LAMBDA ch : ch \notin {"<", "n"})

\* the path of the playable URL in aweme_detail
VideoUrlPath ==
    <<Key("video"), Key("bit_rate"), Index(0), Key("play_addr"), Key("url_list"), Index(0)>>

\* the extraction of video_play_url in _process_video_detail: the text or
\* the exception raised
ExtractVideoUrl(video_detail_data) ==
    LET r == SafeGetNestedValue(video_detail_data, VideoUrlPath, JsonStr(<<>>))
    IN  IF r.raised # "" THEN [raised |-> r.raised, url |-> <<>>]
        ELSE [raised |-> "",
              url |-> IF Truthy(r.value) THEN SanitizeUrl(r.value) ELSE <<>>]

\* the strings of up to n characters
RECURSIVE Strings(_)
Strings(n) ==
    IF n = 0 THEN {<<>>}
    ELSE Strings(n - 1) \cup
         {Append(s, ch) : s \in {u \in Strings(n - 1) : Len(u) = n - 1},
                          ch \in {"h", "c", "<", " ", "n"}}

\* the values that are neither the dict nor the list a level expects
Scalars == {JsonNull, JsonNum} \cup {JsonStr(s) : s \in Strings(MaxUrlLen)}

\* the payloads, level by level: at each level the value expected, whole or
\* empty, or a value of another type
UrlListValues ==
    Scalars \cup {JsonDict(<<>>), JsonList(<<>>)}
    \cup {JsonList(<<leaf>>) : leaf \in Scalars \cup {JsonDict(<<>>), JsonList(<<>>)}}
PlayAddrValues ==
    {JsonNull, JsonNum, JsonStr(<<"c">>), JsonList(<<>>), JsonList(<<JsonNum>>), JsonDict(<<>>)}
    \cup {JsonDict(<<Pair("url_list", u)>>) : u \in UrlListValues}
BitRateValues ==
    {JsonNull, JsonNum, JsonStr(<<"c">>), JsonDict(<<>>), JsonList(<<>>)}
    \cup {JsonList(<<b>>) :
             b \in {JsonNull, JsonNum, JsonStr(<<"c">>), JsonList(<<>>), JsonDict(<<>>)}
                   \cup {JsonDict(<<Pair("play_addr", p)>>) : p \in PlayAddrValues}}
VideoValues ==
    {JsonNull, JsonNum, JsonStr(<<"c">>), JsonList(<<>>), JsonList(<<JsonNum>>), JsonDict(<<>>)}
    \cup {JsonDict(<<Pair("bit_rate", r)>>) : r \in BitRateValues}
VideoDetailData ==
    {JsonDict(<<Pair("aweme_id", JsonStr(<<"c">>))>>)}
    \cup {JsonDict(<<Pair("aweme_id", JsonStr(<<"c">>)), Pair("video", v)>>) : v \in VideoValues}

\* a spider about to take the playable URL out of a video-detail payload
InitExtract ==
    /\ config = CHOOSE c \in Configs : TRUE
    /\ pc = "Idle"
    /\ InitSpider
    /\ cache = EmptyCache
    /\ manager = NoManager
    /\ log = <<>>
    /\ file = <<>>
    /\ limiter = RateLimiter(1, 1)
    /\ item_data \in VideoDetailData
    /\ verdict = None
    /\ threads = NoThreads
    /\ retry_call = NoRetryCall

\* _process_video_detail takes video_play_url out of the payload
ExtractUrl ==
    /\ pc = "Idle"
    /\ IsNone(verdict)
    /\ verdict' = Some(ExtractVideoUrl(item_data))
    /\ UNCHANGED <<now, cache, crawlVars, manager, log, file, limiter, item_data, threads, retry_call>>

SpecExtract == InitExtract /\ [][ExtractUrl]_vars

\* ------------------------------------------------------------ the item URL
\* aweme_id in aweme_detail: the key absent, None, '', white space, the text
\* of an id or a number
AwemeIds == {"absent", "null", "empty", "blank", "text", "number", "zero"}

\* str(video_detail_data.get('aweme_id', ""))
StrOfId(aweme_id) ==
    CASE aweme_id \in {"absent", "empty"} -> ""
      [] aweme_id = "null" -> "None"
      [] aweme_id = "blank" -> " "
      [] aweme_id = "zero" -> "0"
      [] OTHER -> "7"
\* .strip()
StripId(s) == IF s = " " THEN "" ELSE s

\* what _fetch_video_detail returned: None, or a mapping whose aweme_detail is
\* absent, None, an empty mapping, or a mapping with an aweme_id
VideoDetail(detail, aweme_id) == [detail |-> detail, aweme_id |-> aweme_id]
VideoDetails ==
    {VideoDetail(d, "absent") : d \in {"None", "absent", "null", "empty"}}
    \cup {VideoDetail("dict", a) : a \in AwemeIds}

\* a URL: the base it starts with, the id and the title that follow
Url(base, id, title) == [base |-> base, id |-> id, title |-> title]

\* formatters.create_encrypted_url: the base alone when the id or the title
\* is empty, else base/id/title with the title encoded by the method
CreateEncryptedUrl(base_url, item_id, title, encryption_method) ==
    IF item_id = "" \/ title = "" THEN Url(base_url, "", "")
    ELSE Url(base_url, item_id,
             CASE encryption_method = "base64" -> "base64(" \o title \o ")"
               [] encryption_method = "hash" -> "md5(" \o title \o ")"
               [] OTHER -> "quote(" \o title \o ")")

\* item_url of _process_hot_list_item: the short link of the video when the
\* payload gave an id, else the URL of the hot-list page
ItemUrl(cfg, item_id, item_title, json) ==
    LET hot_list_page_url ==
            IF cfg.url_encoding_enabled
            THEN CreateEncryptedUrl("hot_list_url", item_id, item_title,
                                    cfg.url_encoding_method)
            ELSE Url("hot_list_url", item_id, item_title)
        video_id == IF json.detail = "dict" THEN StripId(StrOfId(json.aweme_id)) ELSE ""
    IN  IF video_id # "" THEN Url("video_url", video_id, "") ELSE hot_list_page_url

\* VideoArticle: its short link (the title and the play URL are left out)
VideoArticle(short_url) == [short_url |-> short_url]

\* _validate_video_data: aweme_id is present, truthy and not blank
ValidateVideoData(json) ==
    /\ json.aweme_id # "absent"
    /\ json.aweme_id \notin {"null", "empty", "zero"}
    /\ StripId(StrOfId(json.aweme_id)) # ""

\* _process_video_detail without the validation of the video data
ProcessVideoDetailUnvalidated(json) ==
    IF json.detail # "dict" THEN <<>>
    ELSE LET video_id == IF json.aweme_id = "absent" THEN "None"
                         ELSE StripId(StrOfId(json.aweme_id))
         IN  IF video_id = "" THEN <<>>
             ELSE <<VideoArticle(Url("video_url", video_id, ""))>>

\* _process_video_detail on what the request returned (not None): the
\* articles appended to the item, none when the method returns None
ProcessVideoDetail(json) ==
    IF json.detail # "dict" \/ ~ValidateVideoData(json) THEN <<>>
    ELSE LET video_id == IF json.aweme_id = "absent" THEN "None"
                         ELSE StripId(StrOfId(json.aweme_id))
         IN  IF video_id = "" THEN <<>>
             ELSE <<VideoArticle(Url("video_url", video_id, ""))>>

\* the settings of the URL encoding
UrlConfigs ==
    [url_encoding_enabled : BOOLEAN, url_encoding_method : {"url_encode", "base64", "hash"}]

\* a valid entry, its id and cleaned title, and what the video-detail request
\* returned for it
UrlItems ==
    [cfg : UrlConfigs, item_id : {"", "id"}, item_title : {"", "title"}, json : VideoDetails]

\* a spider about to assemble one valid entry
InitUrl ==
    /\ config = CHOOSE c \in Configs : TRUE
    /\ pc = "Idle"
    /\ InitSpider
    /\ cache = EmptyCache
    /\ manager = NoManager
    /\ log = <<>>
    /\ file = <<>>
    /\ limiter = RateLimiter(1, 1)
    /\ item_data \in UrlItems
    /\ verdict = None
    /\ threads = NoThreads
    /\ retry_call = NoRetryCall

\* _process_hot_list_item builds the item: its URL and its articles
AssembleItem ==
    /\ pc = "Idle"
    /\ IsNone(verdict)
    /\ verdict' = Some([url |-> ItemUrl(item_data.cfg, item_data.item_id,
                                        item_data.item_title, item_data.json),
                        articles |-> IF item_data.json.detail = "None" THEN <<>>
                                     ELSE ProcessVideoDetail(item_data.json)])
    /\ UNCHANGED <<now, cache, crawlVars, manager, log, file, limiter, item_data, threads, retry_call>>

SpecUrl == InitUrl /\ [][AssembleItem]_vars

\* ------------------------------------------- threads sharing a rate limiter
\* the number of threads and the calls each of them makes
MaxThreads == 2
MaxThreadCalls == 2

\* RateLimiter.get_remaining_requests at time t: the requests are purged
\* under the lock
GetRemainingRequests(l, t) ==
    LET live == LiveRequests(l, t)
    IN  [value |-> IF l.max_requests - Len(live) > 0 THEN l.max_requests - Len(live) ELSE 0,
         limiter |-> [l EXCEPT !.requests = live]]

\* A thread: where it stands ("idle" between calls, "refused" inside
\* wait_if_needed after can_proceed said no, "raised" when wait_if_needed
\* let an exception out), the calls it made, the requests its can_proceed
\* left when it refused, and the optional requests it then took min() of
Thread(at, calls, seen, used) == [pc |-> at, calls |-> calls, seen |-> seen, used |-> used]

\* threads about to share a limiter just constructed
InitThreads ==
    /\ config = CHOOSE c \in Configs : TRUE
    /\ pc = "Idle"
    /\ InitSpider
    /\ cache = EmptyCache
    /\ manager = NoManager
    /\ log = <<>>
    /\ file = <<>>
    /\ limiter \in {RateLimiter(n, w) : n \in 1..MaxRequests, w \in 1..MaxWindow}
    /\ item_data = NoItem
    /\ verdict = None
    /\ threads = [t \in 1..MaxThreads |-> Thread("idle", 0, <<>>, None)]
    /\ retry_call = NoRetryCall

\* the frame of a step of a thread
ThreadFrame == UNCHANGED <<cache, crawlVars, manager, log, file, item_data, verdict, retry_call>>

\* the clock goes on
ClockTick ==
    /\ pc = "Idle"
    /\ threads # NoThreads
    /\ now < MaxTime
    /\ now' = now + 1
    /\ UNCHANGED <<limiter, threads>>
    /\ ThreadFrame

\* a thread calls can_proceed(): one step, under the lock
ThreadCanProceed ==
    /\ pc = "Idle"
    /\ \E t \in DOMAIN threads :
          /\ threads[t].pc = "idle"
          /\ threads[t].calls < MaxThreadCalls
          /\ limiter' = CanProceed(limiter, now).limiter
          /\ threads' = [threads EXCEPT ![t].calls = @ + 1]
    /\ UNCHANGED now
    /\ ThreadFrame

\* a thread calls get_remaining_requests(): one step, under the lock
ThreadRemaining ==
    /\ pc = "Idle"
    /\ \E t \in DOMAIN threads :
          /\ threads[t].pc = "idle"
          /\ threads[t].calls < MaxThreadCalls
          /\ limiter' = GetRemainingRequests(limiter, now).limiter
          /\ threads' = [threads EXCEPT ![t].calls = @ + 1]
    /\ UNCHANGED now
    /\ ThreadFrame

\* a thread enters wait_if_needed(): its can_proceed(), under the lock; it
\* returns at once when admitted
ThreadWaitCheck ==
    /\ pc = "Idle"
    /\ \E t \in DOMAIN threads :
          /\ threads[t].pc = "idle"
          /\ threads[t].calls < MaxThreadCalls
          /\ LET r == CanProceed(limiter, now)
             IN  /\ limiter' = r.limiter
                 /\ threads' = [threads EXCEPT
                                  ![t] = Thread(IF r.value THEN "idle" ELSE "refused",
                                                @.calls + 1, r.limiter.requests, None)]
    /\ UNCHANGED now
    /\ ThreadFrame

\* the thread goes on inside wait_if_needed(): min(self.requests), read
\* without the lock, raises ValueError on an empty list; else the thread
\* sleeps and returns
ThreadWaitRead ==
    /\ pc = "Idle"
    /\ \E t \in DOMAIN threads :
          /\ threads[t].pc = "refused"
          /\ threads' = [threads EXCEPT
                           ![t].pc = IF limiter.requests = <<>> THEN "raised" ELSE "idle",
                           ![t].used = Some(limiter.requests)]
    /\ UNCHANGED <<now, limiter>>
    /\ ThreadFrame

NextThreads ==
    \/ ClockTick
    \/ ThreadCanProceed
    \/ ThreadRemaining
    \/ ThreadWaitCheck
    \/ ThreadWaitRead

SpecThreads == InitThreads /\ [][NextThreads]_vars

\* ------------------------------------------------------ the batch download
\* the largest max_concurrent of a downloader
MaxConcurrent == 2

\* A title for the file name: its first 50 characters and whether more follow
Title(head, more) == [head |-> head, more |-> more]

\* DouyinSpider._sanitize_video_filename: the title cut after 50 characters
SanitizeVideoFilename(title) == title.head

\* the file name given to a video: [position]_title.mp4
Filename(position, title) ==
    "[" \o IntStr(position) \o "]_" \o SanitizeVideoFilename(title) \o ".mp4"

\* an item of the response: its position, its title and whether its article
\* has a video_url
DownloadItem(position, title, has_video) ==
    [position |-> position, title |-> title, has_video |-> has_video]
DownloadItems ==
    {DownloadItem(p, Title(h, m), v) :
        p \in 1..MaxItems, h \in {"a", "b"}, m \in BOOLEAN, v \in BOOLEAN}
RECURSIVE ItemLists(_)
ItemLists(n) ==
    IF n = 0 THEN {<<>>}
    ELSE ItemLists(n - 1) \cup
         {Append(l, it) : l \in {u \in ItemLists(n - 1) : Len(u) = n - 1},
                          it \in DownloadItems}

\* video_download_list: one task for each item whose article has a video
\* URL, in the order of the items; the path is download_dir / filename
RECURSIVE VideoDownloadList(_)
VideoDownloadList(hot_items) ==
    IF hot_items = <<>> THEN <<>>
    ELSE LET rest == VideoDownloadList(SubSeq(hot_items, 1, Len(hot_items) - 1))
             item == hot_items[Len(hot_items)]
         IN  IF item.has_video
             THEN Append(rest, [pc |-> "queued",
                                path |-> Filename(item.position, item.title)])
             ELSE rest

\* the workers inside download_video
Running == {k \in DOMAIN threads : threads[k].pc = "running"}

\* a spider about to download the videos of the items of a response
InitDownload ==
    /\ config = CHOOSE c \in Configs : TRUE
    /\ pc = "Idle"
    /\ InitSpider
    /\ cache = EmptyCache
    /\ manager = NoManager
    /\ log = <<>>
    /\ file = <<>>
    /\ limiter = RateLimiter(1, 1)
    /\ item_data \in [hot_items : ItemLists(MaxItems), max_concurrent : 1..MaxConcurrent]
    /\ verdict = None
    /\ threads = NoThreads
    /\ retry_call = NoRetryCall

\* the frame of a step of the download
DownloadFrame ==
    UNCHANGED <<now, cache, crawlVars, manager, log, file, limiter, item_data, retry_call>>

\* _download_videos_from_items collects the tasks and download_videos
\* submits them to the pool
SubmitDownloads ==
    /\ pc = "Idle"
    /\ IsNone(verdict)
    /\ item_data.hot_items # <<>>
    /\ threads' = VideoDownloadList(item_data.hot_items)
    /\ verdict' = Some("submitted")
    /\ DownloadFrame

\* a free worker of the pool takes a task: download_video
WorkerStarts ==
    /\ pc = "Idle"
    /\ verdict = Some("submitted")
    /\ Cardinality(Running) < item_data.max_concurrent
    /\ \E k \in DOMAIN threads :
          /\ threads[k].pc = "queued"
          /\ \A j \in 1..(k - 1) : threads[j].pc # "queued"
          /\ threads' = [threads EXCEPT ![k].pc = "running"]
    /\ UNCHANGED verdict
    /\ DownloadFrame

\* a worker is through with its file
WorkerEnds ==
    /\ pc = "Idle"
    /\ verdict = Some("submitted")
    /\ \E k \in Running : threads' = [threads EXCEPT ![k].pc = "done"]
    /\ UNCHANGED verdict
    /\ DownloadFrame

\* every task is done: the pool is shut down and download_videos returns
DownloadsCollected ==
    /\ pc = "Idle"
    /\ verdict = Some("submitted")
    /\ \A k \in DOMAIN threads : threads[k].pc = "done"
    /\ verdict' = Some("collected")
    /\ UNCHANGED threads
    /\ DownloadFrame

NextDownload == SubmitDownloads \/ WorkerStarts \/ WorkerEnds \/ DownloadsCollected

SpecDownload == InitDownload /\ [][NextDownload]_vars

\* ------------------------------------------- a crawl after an earlier crawl
\* an earlier successful crawl() of the same process: the tick of its store,
\* its max_items and skip_top_item and the response it stored
EarlierCrawl(at, max_items, skip_top_item, response) ==
    [kind |-> "crawl", at |-> at, max_items |-> max_items,
     skip_top_item |-> skip_top_item, response |-> response]

\* the item an earlier crawl made of the second entry of the payload
SecondItem == HotListItem(2, "short_url", <<"VideoArticle">>)

\* the earlier crawls: without skip_top_item the response is empty or holds
\* the first (pinned) entry, with it the response starts at the second entry
EarlierCrawls ==
    {EarlierCrawl(at, n, FALSE, HotListResponse(its)) :
        at \in 0..MaxTime, n \in 1..MaxItems, its \in {<<>>, <<CachedItem>>}}
    \cup {EarlierCrawl(at, n, TRUE, HotListResponse(<<SecondItem>>)) :
        at \in 0..MaxTime, n \in 1..MaxItems}

\* a store whose key carries skip_top_item as well
StoredBySkipKeyed(earlier) ==
    CacheSet(EmptyCache,
             CacheKey(earlier.at, earlier.max_items)
                 \o (IF earlier.skip_top_item THEN "_skip" ELSE ""),
             earlier.response, earlier.at, CacheMaxSize)

\* the cache after the store of the earlier crawl:
\* self.cache_manager.set(cache_key, hot_list_response)
StoredBy(earlier) ==
    CacheSet(EmptyCache, CacheKey(earlier.at, earlier.max_items), earlier.response,
             earlier.at, CacheMaxSize)

\* a crawl that starts once an earlier one has stored its response, the ttl
\* being the short one or one hour
InitShared ==
    /\ item_data \in EarlierCrawls
    /\ config \in {[c EXCEPT !.cache_duration = ttl] :
                     ttl \in {CacheDuration, TicksPerHour},
                     c \in {d \in Configs : /\ d.enable_cache
                                            /\ d.hot_list_max_retries = 1
                                            /\ d.video_detail_max_retries = 1
                                            /\ ~d.video_download_enabled}}
    /\ cache = StoredBy(item_data)
    /\ now = item_data.at
    /\ pc = "Start"
    /\ retry_call = NoRetryCall
    /\ manager = NoManager
    /\ log = <<>>
    /\ file = <<>>
    /\ limiter = RateLimiter(1, 1)
    /\ verdict = None
    /\ threads = NoThreads
    /\ browser = [created |-> 0, quit |-> 0, quit_failed |-> FALSE]
    /\ hot_list_json = None
    /\ hot_items_list = <<>>
    /\ i = 0
    /\ items = <<>>
    /\ items_processed = 0
    /\ items_success = 0
    /\ stats = [request_count |-> 0, success_count |-> 0, error_count |-> 0]
    /\ attempts = <<>>
    /\ sleeps = 0
    /\ trace = <<>>
    /\ download = "not_reached"
    /\ raised = None
    /\ result = None

SpecShared == InitShared /\ [][Next]_vars

\* ------------------------------------------------- a crawl that takes time
\* the clock advances while crawl() is between its lookup and its return:
\* the session, the fetches, the sleeps and the downloads take time
Elapse ==
    /\ pc \notin {"Start", "Done"}
    /\ now < MaxTime
    /\ now' = now + 1
    /\ UNCHANGED componentVars
    /\ UNCHANGED <<config, cache, pc, browser, hot_list_json, hot_items_list, i, items,
                   items_processed, items_success, stats, attempts, sleeps, trace, download,
                   raised, result>>

\* a first run with the cache enabled, started at tick 0
InitLong ==
    /\ config \in {c \in Configs : /\ c.enable_cache
                                   /\ c.hot_list_max_retries = MaxRetries
                                   /\ c.video_detail_max_retries = MaxRetries
                                   /\ ~c.video_download_enabled}
    /\ cache = EmptyCache
    /\ pc = "Start"
    /\ retry_call = NoRetryCall
    /\ SpiderComponents
    /\ InitSpider

NextLong ==
    \/ CacheCheck
    \/ GetBrowser
    \/ FetchHotList
    \/ ParsePayload
    \/ ProcessItem
    \/ DownloadVideos
    \/ CacheStore
    \/ Elapse

SpecLong == InitLong /\ [][NextLong]_vars

\* ---------------------------------------------------------------- claims
Min(a, b) == IF a <= b THEN a ELSE b

\* crawl() has returned after going through the item loop (no cache hit)
FreshDone == pc = "Done" /\ download # "not_reached"

\* crawl() has returned a cached response
CacheHit ==
    pc = "Done" /\ ~IsNone(result) /\ result[1].success /\ download = "not_reached"

\* the length of the fetched word_list
PayloadLen == hot_list_json[1].word_list

\* the payload indices of a sequence of items
Indices(its) == [k \in 1..Len(its) |-> its[k].index]

\* the processed entries that produced no item
Skipped ==
    Cardinality({j \in 1..Len(trace) : trace[j].outcome \in {"rejected", "raised", "text"}})

SessionOpenFailed ==
    browser.created = 0 /\ ~IsNone(raised) /\ raised[1].cls = "Exception"
HotListFetchFailed ==
    browser.created = 1 /\ IsNone(hot_list_json) /\ ~IsNone(raised)
EmptyBody == ~IsNone(hot_list_json) /\ hot_list_json[1].shape = "falsy"
MissingDataField ==
    ~IsNone(hot_list_json) /\ hot_list_json[1].shape = "dict"
        /\ hot_list_json[1].data = "absent"
EmptyHotList ==
    ~IsNone(hot_list_json) /\ hot_list_json[1].shape = "dict"
        /\ hot_list_json[1].data = "dict" /\ hot_list_json[1].word_list = 0
FourSituations ==
    SessionOpenFailed \/ HotListFetchFailed \/ EmptyBody \/ MissingDataField \/ EmptyHotList
\* the body, or its data field, is no mapping
PayloadNoMapping ==
    ~IsNone(hot_list_json) /\
        \/ hot_list_json[1].shape = "text"
        \/ hot_list_json[1].shape = "dict" /\ hot_list_json[1].data = "text"
\* the cache returned a value that is no HotListResponse
CachedValueNoResponse ==
    browser.created = 0 /\ ~IsNone(raised) /\ raised[1].cls = "TypeError"

C3_SessionClosedOnce ==
    /\ browser.created <= 1
    /\ pc \in {"Start", "Open"} => browser.created = 0 /\ browser.quit = 0
    /\ pc \in {"Fetch", "Parse", "Loop", "Store"} =>
          browser.created = 1 /\ browser.quit = 0
    /\ pc = "Done" => browser.quit = browser.created
    /\ CacheHit => browser.created = 0 /\ browser.quit = 0
    /\ (pc = "Done" /\ browser.quit_failed) =>
          /\ result[1].success = (IsNone(raised) /\ ~FourSituations)
          /\ ~IsNone(raised) => result[1].error_message = Some(Str(raised[1]))

\* an exception left the session scope and quit() raised as well
C3_Witness ==
    /\ pc = "Done"
    /\ browser.created = 1 /\ browser.quit = 1 /\ browser.quit_failed
    /\ ~IsNone(raised) /\ ~result[1].success

\* the cache holds an unexpired HotListResponse under `key`
FreshResponse(key) ==
    /\ key \in DOMAIN cache
    /\ now - cache[key].timestamp < config.cache_duration
    /\ cache[key].value.kind = "HotListResponse"

\* crawl() does its cache lookup in this step, the cache being enabled
LookupStep == pc = "Start" /\ pc' # "Start" /\ config.enable_cache

\* the step ends crawl() with the response cached under `key`, no session
\* opened and no request made
ReturnsCached(key) ==
    /\ pc' = "Done"
    /\ result' = Some(CrawlResult(TRUE, Some(cache[key].value), None,
                                  Len(cache[key].value.items),
                                  Len(cache[key].value.items)))
    /\ stats'.request_count = 0
    /\ browser'.created = 0

\* the key of the hour of tick t and of size n, written out:
\* hot_list_<YYYYMMDD>_<HH>_<n>
WrittenKey(t, n) ==
    "hot_list_20250101_" \o <<"00", "01", "02", "03">>[(t \div TicksPerHour) + 1]
        \o "_" \o <<"1", "2", "3", "4">>[n]

\* C4 as stated: with caching enabled, a crawl that finds an unexpired
\* response under the key of the specification's example format
\* (hot_list_2025010100_10) returns it with success=true, both counters the
\* number of cached items, and no network fetch.
C4_ExampleKeyHit ==
    [][(LookupStep /\ FreshResponse(ExampleKey(now, config.max_items)))
          => ReturnsCached(ExampleKey(now, config.max_items))]_vars

\* C4 amended: the same, for the key hot_list_<YYYYMMDD>_<HH>_<max_items>
\* (hot_list_20250101_00_10 in the example) that crawl() looks up.
C4_CacheHit ==
    [][(LookupStep /\ FreshResponse(WrittenKey(now, config.max_items)))
          => ReturnsCached(WrittenKey(now, config.max_items))]_vars

\* a cached response of one item was returned without any request
C4_Witness ==
    /\ CacheHit
    /\ Len(result[1].data[1].items) = 1
    /\ result[1].items_processed = 1 /\ result[1].items_success = 1
    /\ stats.request_count = 0 /\ browser.created = 0

\* C5 as stated: with skip_top_item a fresh crawl over a payload of M >= 1
\* entries processes min(max_items, M-1) entries and never the first one.
C5_SkipTopAlways ==
    (FreshDone /\ config.skip_top_item) =>
        /\ result[1].items_processed = Min(config.max_items, PayloadLen - 1)
        /\ \A j \in 1..Len(trace) : trace[j].index # 1

\* C5 amended: that holds for M >= 2; a payload of a single entry is not
\* shortened, its only entry is processed and items_processed = 1.
C5_SkipTop ==
    (FreshDone /\ config.skip_top_item) =>
        IF PayloadLen >= 2
        THEN /\ result[1].items_processed = Min(config.max_items, PayloadLen - 1)
             /\ \A j \in 1..Len(trace) : trace[j].index # 1
        ELSE /\ result[1].items_processed = 1
             /\ Len(trace) = 1 /\ trace[1].index = 1

\* of three entries the last two were processed
C5_Witness ==
    /\ FreshDone /\ config.skip_top_item
    /\ PayloadLen = 3 /\ config.max_items = 2
    /\ result[1].items_processed = 2
    /\ Indices(trace) = <<2, 3>>

\* C6: with skip_top_item off a fresh crawl over M >= 1 entries has
\* items_processed = min(max_items, M), and when every processed entry is
\* valid the response holds exactly the first min(max_items, M) entries, in
\* payload order.
C6_FirstItemsInOrder ==
    (FreshDone /\ ~config.skip_top_item) =>
        /\ result[1].items_processed = Min(config.max_items, PayloadLen)
        /\ (\A j \in 1..Len(trace) : trace[j].outcome # "rejected") =>
              Indices(result[1].data[1].items)
                  = [k \in 1..Min(config.max_items, PayloadLen) |-> k]

\* C7: throughout a fresh crawl items_processed = items_success + the entries
\* skipped (validation failure or processing exception), the response holds
\* items_success items, items_success <= items_processed <= max_items, and
\* the returned result reports these counters and these items.
C7_Counters ==
    /\ items_processed = items_success + Skipped
    /\ Len(trace) = items_processed
    /\ Len(items) = items_success
    /\ items_success <= items_processed
    /\ items_processed <= config.max_items
    /\ FreshDone =>
          /\ result[1].items_processed = items_processed
          /\ result[1].items_success = items_success
          /\ result[1].data = Some(HotListResponse(items))

\* two entries were processed and one of them was skipped
C7_Witness ==
    /\ FreshDone
    /\ result[1].items_processed = 2 /\ result[1].items_success = 1
    /\ Skipped = 1

\* the video-detail fetch of a valid entry ended without a body: the request
\* failed, or the retry wrapper raised
FetchFailed(t) == t.outcome \in {"None", "raised"}

\* C8: a valid entry whose video-detail fetch ultimately failed is in the
\* response, at its place, with no article and the hot-list URL; it counts as
\* a success; the entries after it are processed as well and the crawl
\* succeeds.
C8_FailedFetchKeepsItem ==
    /\ \A j \in 1..Len(trace) :
          FetchFailed(trace[j]) =>
              \E m \in 1..Len(items) :
                  items[m] = HotListItem(trace[j].index, "hot_list_page_url", <<>>)
    /\ \A m, n \in 1..Len(items) : m < n => items[m].index < items[n].index
    /\ items_success = Len(items)
    /\ FreshDone =>
          /\ result[1].success
          /\ result[1].items_processed = Min(config.max_items, Len(hot_items_list))
          /\ result[1].data[1].items = items

\* C9: an entry is degraded to "no video" only after its video-detail fetch
\* was attempted video_detail_max_retries times.
C9_RetriedBeforeDegrading ==
    \A j \in 1..Len(trace) :
        trace[j].outcome = "None" => trace[j].calls = config.video_detail_max_retries

\* the operation throws on every invocation
AlwaysThrows(op) == \A a \in DOMAIN op : op[a].raises

\* C10: for every max_retries >= 0 an operation that always throws is invoked
\* exactly max_retries times, and the exception that propagates is the one
\* its last invocation threw.
C10_RetryExhaustion ==
    (~IsNone(retry_call.run) /\ AlwaysThrows(retry_call.op)) =>
        LET run == retry_call.run[1]
            n == retry_call.max_retries
        IN  /\ run.raised
            /\ run.calls = n
            /\ n \in DOMAIN retry_call.op
            /\ run.exc = retry_call.op[n].exc


\* the operation throws on its first k-1 invocations and returns on the k-th
SucceedsAt(op, k) ==
    /\ k \in DOMAIN op
    /\ ~op[k].raises
    /\ \A a \in 1..(k - 1) : op[a].raises

\* C11: an operation that throws on its first k-1 invocations and returns on
\* invocation k <= max_retries is invoked exactly k times by the wrapper, the
\* wrapper returns the value of that k-th invocation unchanged, and no
\* exception propagates.
C11_RetrySuccess ==
    ~IsNone(retry_call.run) =>
        \A k \in 1..retry_call.max_retries :
            SucceedsAt(retry_call.op, k) =>
                /\ retry_call.run[1].calls = k
                /\ ~retry_call.run[1].raised
                /\ retry_call.run[1].exc = NoException
                /\ retry_call.run[1].value = Some(retry_call.op[k].value)

\* the wrapper returned the value of a last permitted attempt that followed
\* a failed one
C11_Witness ==
    /\ ~IsNone(retry_call.run)
    /\ retry_call.max_retries >= 2
    /\ SucceedsAt(retry_call.op, retry_call.max_retries)
    /\ retry_call.run[1].calls = retry_call.max_retries
    /\ retry_call.run[1].value = Some("b")


\* the map a call of the log found
Before(b) == IF b = 1 THEN EmptyCache ELSE log[b - 1].after

\* C12: a set(k, v) followed, with no set, clear or cleanup_expired in
\* between, by a get(k) at time t: if t - storedAt < ttl the get returns v;
\* otherwise it returns nothing and leaves the map without k.
C12_CacheFreshness ==
    \A a, b \in 1..Len(log) :
        (/\ a < b
         /\ log[a].op = "set" /\ log[b].op = "get" /\ log[b].key = log[a].key
         /\ \A m \in (a + 1)..(b - 1) : log[m].op = "get") =>
            IF log[b].at - log[a].at < manager.ttl
            THEN log[b].returned = log[a].value
            ELSE /\ log[b].returned = None
                 /\ log[b].key \notin DOMAIN log[b].after

\* an overwritten key was read fresh, with its second value, and read again
\* once expired
C12_Witness ==
    /\ Len(log) = 4
    /\ log[1].op = "set" /\ log[2].op = "set" /\ log[3].op = "get" /\ log[4].op = "get"
    /\ \A j \in 1..4 : log[j].key = "k1"
    /\ log[3].returned = Some("b")
    /\ log[4].at - log[2].at >= manager.ttl
    /\ log[4].returned = None
    /\ "k1" \notin DOMAIN cache

\* the log is n sets on pairwise distinct keys
DistinctSets(n) ==
    /\ Len(log) = n
    /\ \A j \in 1..n : log[j].op = "set"
    /\ \A j, m \in 1..n : j # m => log[j].key # log[m].key

\* C13: from an empty map, max_size + 1 sets on pairwise distinct keys leave
\* exactly max_size entries, the first inserted one missing; and every set
\* of a new key on a full map removes exactly one entry, one of the smallest
\* timestamp, whatever was read in between, and leaves the other entries as
\* they were.
C13_CacheBound ==
    /\ DistinctSets(manager.max_size + 1) =>
          /\ Cardinality(DOMAIN cache) = manager.max_size
          /\ DOMAIN cache = {log[j].key : j \in 2..Len(log)}
    /\ \A b \in 1..Len(log) :
          (/\ log[b].op = "set"
           /\ log[b].key \notin DOMAIN Before(b)
           /\ Cardinality(DOMAIN Before(b)) >= manager.max_size) =>
              \E e \in DOMAIN Before(b) :
                  /\ DOMAIN log[b].after = ((DOMAIN Before(b)) \ {e}) \cup {log[b].key}
                  /\ \A j \in DOMAIN Before(b) :
                        Before(b)[e].timestamp <= Before(b)[j].timestamp
                  /\ \A j \in (DOMAIN Before(b)) \ {e} :
                        /\ log[b].after[j].value = Before(b)[j].value
                        /\ log[b].after[j].timestamp = Before(b)[j].timestamp

\* the oldest of two entries was read, later than the other one was
\* written, and the next new key evicted it all the same
C13_Witness ==
    /\ manager.max_size = 2
    /\ Len(log) = 4
    /\ log[1].op = "set" /\ log[1].key = "k1" /\ log[1].at = 0
    /\ log[2].op = "set" /\ log[2].key = "k2" /\ log[2].at = 1
    /\ log[3].op = "get" /\ log[3].key = "k1" /\ log[3].returned = Some("a")
    /\ log[3].at = 1
    /\ log[4].op = "set" /\ log[4].key = "k3"
    /\ DOMAIN cache = {"k2", "k3"}

\* C14: a set on a key the map already holds removes no other key: the key
\* set is as before and the other entries are as they were.
C14_OverwriteEvictsNothing ==
    \A b \in 1..Len(log) :
        (log[b].op = "set" /\ log[b].key \in DOMAIN Before(b)) =>
            /\ DOMAIN log[b].after = DOMAIN Before(b)
            /\ \A j \in (DOMAIN Before(b)) \ {log[b].key} :
                  /\ log[b].after[j].value = Before(b)[j].value
                  /\ log[b].after[j].timestamp = Before(b)[j].timestamp


\* the manager has been constructed over the file
Loaded == log # <<>> /\ log[1].op = "load"

\* C16: after the construction over a cache file the map holds only entries
\* that are not expired and whose value was reconstructed into a
\* HotListResponse; plain data that failed to deserialize is absent.
C16_LoadKeepsOnlyResponses ==
    Loaded =>
        \A k \in DOMAIN cache :
            /\ now - cache[k].timestamp < manager.ttl
            /\ cache[k].value.kind = "HotListResponse"


\* C15: no failure of the cache makes a crawl fail: whatever the cache holds
\* under the key (nothing, an expired entry, or a persisted entry that was
\* not reconstructed into a HotListResponse), the lookup either ends crawl()
\* with a valid cached response or goes on as on a miss, opening the session.
C15_CacheFailureIsMiss ==
    [][LookupStep =>
          \/ /\ FreshResponse(CacheKey(now, config.max_items))
             /\ ReturnsCached(CacheKey(now, config.max_items))
          \/ pc' = "Open"]_vars


\* the oldest of a sequence of recorded requests
Oldest(requests) ==
    CHOOSE r \in {requests[j] : j \in 1..Len(requests)} :
        \A j \in 1..Len(requests) : r <= requests[j]

\* C17: of the first max_requests + 1 admissions asked of a new limiter
\* within time_window of the first, the first max_requests are granted, each
\* recording its time, and the next one is refused and records nothing; an
\* admission asked once time_window has passed since the oldest recorded
\* request is granted.
C17_Admission ==
    \A j \in 1..Len(log) :
        /\ (j <= limiter.max_requests + 1 /\ log[j].at - log[1].at < limiter.time_window) =>
              IF j <= limiter.max_requests
              THEN log[j].admitted /\ log[j].after = Append(log[j].requests, log[j].at)
              ELSE ~log[j].admitted /\ log[j].after = log[j].requests
        /\ (log[j].requests # <<>>
              /\ log[j].at - Oldest(log[j].requests) >= limiter.time_window) =>
              log[j].admitted

\* max_requests admissions granted and one refused inside the window, then
\* one granted when the window of the oldest has passed
C17_Witness ==
    \E j \in 1..Len(log), m \in 1..Len(log) :
        /\ j = limiter.max_requests + 1
        /\ log[j].at - log[1].at < limiter.time_window
        /\ ~log[j].admitted
        /\ m > j
        /\ log[m].op = "can_proceed"
        /\ log[m].at - Oldest(log[m].requests) >= limiter.time_window
        /\ log[m].admitted


\* the calls after which the caller goes on at a time of t .. t + w - 1
Proceeding(t, w) ==
    {j \in 1..Len(log) : ~IsNone(log[j].proceeds) /\ log[j].proceeds[1] \in t..(t + w - 1)}

\* C18: when every caller gates itself with wait_if_needed(), at most
\* max_requests of them go on in any span of time_window, and a caller that
\* had to wait is recorded among the requests when it goes on.
C18_WaitBoundsWindow ==
    (\A j \in 1..Len(log) : log[j].op = "wait_if_needed") =>
        /\ \A t \in 0..MaxTime :
              Cardinality(Proceeding(t, limiter.time_window)) <= limiter.max_requests
        /\ \A j \in 1..Len(log) :
              log[j].returned > 0 =>
                  \E m \in 1..Len(log[j].after) : log[j].after[m] = log[j].proceeds[1]


\* the video-detail requests made for the first n entries of the trace
RECURSIVE DetailFetches(_)
DetailFetches(n) == IF n = 0 THEN 0 ELSE DetailFetches(n - 1) + trace[n].calls

\* C19: during a fresh crawl every video-detail fetch is preceded by an
\* admission on the injected limiter: as many requests are recorded by the
\* limiter as fetches were made, so the fetches of one window stay within
\* max_requests.
C19_FetchesAdmitted ==
    /\ DetailFetches(Len(trace)) <= Len(limiter.requests)
    /\ DetailFetches(Len(trace)) <= limiter.max_requests


\* the number a field holds, in halves, and whether it is a whole number
Halves(v) == v.n
Whole(v) == v.n % 2 = 0

\* the entry has its five fields, none of them null
AllPresent == \A field \in RequiredFields : ~Absent(item_data[field])

\* the entry has numbers for its three numeric fields
AllNumbers ==
    \A field \in {"position", "hot_value", "view_count"} :
        item_data[field].type = "number"

\* the trimmed word is empty or longer than MaxTitleLength
BadTitle == item_data.word.n = 0 \/ item_data.word.n > MaxTitleLength

\* the entry was rejected: no item built, no request made
Rejected == ~verdict[1].valid /\ IsNone(verdict[1].item) /\ verdict[1].calls = 0

\* C20 as stated: an entry is rejected before any HotListItem is built, with
\* no video-detail request, when one of its five fields is missing or null,
\* position <= 0, hot_value < 0, view_count < 0, or the trimmed word has
\* length 0 or more than 200; an entry meeting these conditions with numbers
\* that int() accepts is accepted.
C20_ValidationOnValues ==
    ~IsNone(verdict) =>
        /\ ~AllPresent => Rejected
        /\ (AllPresent /\ BadTitle) => Rejected
        /\ (AllPresent /\ AllNumbers) =>
              IF \/ Halves(item_data.position) <= 0
                 \/ Halves(item_data.hot_value) < 0
                 \/ Halves(item_data.view_count) < 0
                 \/ BadTitle
              THEN Rejected
              ELSE verdict[1].valid

\* C20: the same with the three numbers taken after int(), which drops the
\* fraction toward zero: a position between 0 and 1 is rejected, a hot_value
\* or view_count between -1 and 0 is accepted as 0.
C20_ValidationOnIntegers ==
    ~IsNone(verdict) =>
        IF \/ ~AllPresent
           \/ ~AllNumbers
           \/ IntOf(item_data.position) <= 0
           \/ IntOf(item_data.hot_value) < 0
           \/ IntOf(item_data.view_count) < 0
           \/ BadTitle
        THEN Rejected
        ELSE verdict[1].valid /\ ~IsNone(verdict[1].item) /\ verdict[1].calls = 1

\* an entry whose hot_value lies between -1 and 0 and whose word has
\* MaxTitleLength characters inside white space has been accepted
C20_Witness ==
    /\ ~IsNone(verdict)
    /\ verdict[1].valid
    /\ AllPresent
    /\ ~Whole(item_data.hot_value)
    /\ Halves(item_data.hot_value) < 0
    /\ item_data.word.n = MaxTitleLength
    /\ item_data.word.pad = 1


\* C21: every HotListItem a fresh crawl builds has position > 0,
\* popularity >= 0, views >= 0 and a stored title, the cleaned word, of 1 to
\* 200 characters.
C21_StoredFieldsInRange ==
    (~IsNone(verdict) /\ ~IsNone(verdict[1].fields)) =>
        LET stored == verdict[1].fields[1] IN
        /\ stored.position > 0
        /\ stored.popularity >= 0
        /\ stored.views >= 0
        /\ TextLen(stored.title) >= 1
        /\ TextLen(stored.title) <= MaxTitleLength


\* the value a dict holds under a key, if it is a dict that has the key
Under(v, name) ==
    IF v.type = "dict" /\ \E j \in 1..Len(v.kids) : v.kids[j].key = name
    THEN Some(v.kids[CHOOSE j \in 1..Len(v.kids) : v.kids[j].key = name].value)
    ELSE None

\* the first element of a list, if it is a list that has one
First(v) == IF v.type = "list" /\ v.kids # <<>> THEN Some(v.kids[1].value) ELSE None

\* the string at video -> bit_rate[0] -> play_addr -> url_list[0], if every
\* level of the path is there and of its type
WholePath(data) ==
    LET video == Under(data, "video")
        rates == IF IsNone(video) THEN None ELSE Under(video[1], "bit_rate")
        rate == IF IsNone(rates) THEN None ELSE First(rates[1])
        addr == IF IsNone(rate) THEN None ELSE Under(rate[1], "play_addr")
        urls == IF IsNone(addr) THEN None ELSE Under(addr[1], "url_list")
        url == IF IsNone(urls) THEN None ELSE First(urls[1])
    IN  IF ~IsNone(url) /\ url[1].type = "str" THEN url ELSE None

\* C22: the extraction of the playable URL never raises; it yields the empty
\* string when a level of video -> bit_rate[0] -> play_addr -> url_list[0] is
\* missing, null, empty or of another type, and the sanitized url_list[0]
\* when the whole path is there.
C22_NestedExtraction ==
    ~IsNone(verdict) =>
        /\ verdict[1].raised = ""
        /\ verdict[1].url = IF IsNone(WholePath(item_data)) THEN <<>>
                            ELSE SanitizeUrl(WholePath(item_data)[1])

\* a payload whose bit_rate is an empty list has been gone through
C22_Witness ==
    /\ ~IsNone(verdict)
    /\ ~IsNone(Under(item_data, "video"))
    /\ ~IsNone(Under(Under(item_data, "video")[1], "bit_rate"))
    /\ Under(Under(item_data, "video")[1], "bit_rate")[1] = JsonList(<<>>)
    /\ verdict[1].url = <<>>


\* the payload gave a video id that is not empty
HasVideoId(json) == json.detail = "dict" /\ json.aweme_id \in {"text", "number"}

\* C23: the URL of an item is the short link <video_url>/<video id> when the
\* video-detail payload gave a video id that is not empty; otherwise (the
\* request failed, or the payload has no id) it is the URL built from the
\* hot-list base URL, the id of the item and its encoded cleaned title.
C23_ItemUrl ==
    ~IsNone(verdict) =>
        verdict[1].url =
            IF HasVideoId(item_data.json)
            THEN Url("video_url", "7", "")
            ELSE Url("hot_list_url", item_data.item_id,
                     CASE item_data.cfg.url_encoding_method = "base64" ->
                             "base64(" \o item_data.item_title \o ")"
                       [] item_data.cfg.url_encoding_method = "hash" ->
                             "md5(" \o item_data.item_title \o ")"
                       [] OTHER -> "quote(" \o item_data.item_title \o ")")


\* C24: the item loop sleeps request_interval after an entry only if another
\* entry is processed afterwards: once the loop is over it has slept
\* items_processed - 1 times (0 times when items_processed <= 1).
C24_SleepsBetweenItems ==
    (pc \in {"Store", "Done"} /\ download # "not_reached") =>
        sleeps = IF items_processed <= 1 THEN 0 ELSE items_processed - 1


\* C25: under any interleaving of threads calling can_proceed(),
\* wait_if_needed() and get_remaining_requests(), wait_if_needed() computes
\* its wait from the requests its own can_proceed() refused on, and never
\* fails on a list another thread has purged empty.
C25_LockDiscipline ==
    \A t \in DOMAIN threads :
        /\ threads[t].pc # "raised"
        /\ ~IsNone(threads[t].used) => threads[t].used[1] = threads[t].seen


\* C26: the tasks of one batch have pairwise distinct target paths, so no two
\* workers write the same file, and at most max_concurrent workers run at
\* any moment.
C26_DistinctFiles ==
    (~IsNone(verdict) /\ verdict[1] \in {"submitted", "collected"}) =>
        /\ \A a, b \in DOMAIN threads : a # b => threads[a].path # threads[b].path
        /\ Cardinality(Running) <= item_data.max_concurrent


\* the attempts that got a body, and those that did not
WithBody == {a \in 1..Len(attempts) : attempts[a].body}
WithoutBody == {a \in 1..Len(attempts) : ~attempts[a].body}

\* C27: every fetch attempt of the crawl (hot list and video detail, retries
\* included) is recorded by record_request exactly once, as a success iff it
\* got a body; a crawl answered from the cache records nothing.
C27_OneRecordPerAttempt ==
    /\ stats.request_count = Len(attempts)
    /\ stats.success_count = Cardinality(WithBody)
    /\ stats.error_count = Cardinality(WithoutBody)
    /\ CacheHit => stats.request_count = 0 /\ attempts = <<>>

\* a fresh crawl is over whose hot-list request failed once before it got a
\* body, and which made a video-detail request
C27_Witness ==
    /\ FreshDone
    /\ Len(attempts) >= 3
    /\ attempts[1] = Attempt("hot_list", FALSE)
    /\ attempts[2] = Attempt("hot_list", TRUE)
    /\ attempts[3].kind = "video_detail"
    /\ stats.error_count >= 1


\* C28: a fresh crawl writes the cache at most once, in the step that
\* returns success=true, after the item loop and the batch download dispatch
\* are over (also when that dispatch failed); a crawl that returns
\* success=false has written nothing.
C28_StoreLastOnSuccess ==
    /\ [][cache' # cache =>
            /\ pc = "Store" /\ pc' = "Done"
            /\ ~LoopContinues
            /\ download # "not_reached"
            /\ result'[1].success
            /\ cache = EmptyCache
            /\ DOMAIN cache' = {CacheKey(now, config.max_items)}]_vars
    /\ []((pc = "Done" /\ ~result[1].success) => cache = EmptyCache)

\* a crawl whose download dispatch failed has stored its response
C28_Witness ==
    /\ pc = "Done"
    /\ download = "failed"
    /\ result[1].success
    /\ cache # EmptyCache


SameHour == DateTimeNow(item_data.at) = DateTimeNow(now)

\* the crawl has the max_items of the earlier crawl
SameSize == item_data.max_items = config.max_items

\* the earlier crawl's entry is still in the cache and within ttl
WithinTtl ==
    /\ \E key \in DOMAIN cache : cache[key].value = item_data.response
                                    /\ cache[key].timestamp = item_data.at
    /\ now - item_data.at < config.cache_duration

\* C30: a crawl returns the response an earlier crawl cached only when it
\* runs in the same date-and-hour bucket and with the same max_items as the
\* earlier crawl; in another clock hour, or with another max_items, it goes
\* on to open a browser session instead, even within ttl.
C30_HitOnlySameBucket ==
    /\ CacheHit => (SameHour /\ SameSize)
    /\ (pc # "Start" /\ config.enable_cache /\ ~(SameHour /\ SameSize)) =>
           (pc = "Open" \/ download # "not_reached" \/ browser.created > 0
              \/ ~IsNone(raised))

\* a crawl with the earlier crawl's max_items, in the next clock hour and
\* within ttl, went on to the browser
C30_Witness ==
    /\ pc = "Open"
    /\ WithinTtl
    /\ SameSize
    /\ ~SameHour


\* C31: in every state of a CacheManager, right after its construction over
\* a cache file included, the map holds at most max_size entries.
C31_SizeBound ==
    Cardinality(DOMAIN cache) <= manager.max_size


\* C32: a crawl stores its response under the key of its lookup: a crawl
\* whose lookup ran at tick 0 writes the cache under the key of the hour of
\* tick 0 only, however long it takes.
C32_StoreUnderLookupKey ==
    DOMAIN cache \subseteq {CacheKey(0, config.max_items)}


\* C33: the response a fresh crawl returns has total_count equal to the
\* number of its items.
C33_TotalCount ==
    (FreshDone /\ ~IsNone(result) /\ result[1].success) =>
        result[1].data[1].total_count = Len(result[1].data[1].items)


\* C34: an entry whose video-detail fetch returned its body as text is not
\* lost: the response holds an item for it, with an article or without one.
C34_TextBodyKeepsItem ==
    \A j \in 1..Len(trace) :
        trace[j].outcome = "text" =>
            \E k \in 1..Len(items) : items[k].index = trace[j].index


\* C35: with the cache enabled a fresh crawl that returns success=true has
\* stored its response, also when no item succeeded; and a crawl run in the
\* hour of an earlier store, with the same max_items and before the entry
\* expires, returns the stored response (an empty one included, with
\* items_processed = 0) as a cache hit, without a session or a request.
C35_EmptyResponseCached ==
    /\ (FreshDone /\ ~IsNone(result) /\ result[1].success) =>
           LET key == CacheKey(now, config.max_items) IN
           /\ key \in DOMAIN cache
           /\ cache[key].value = result[1].data[1]
           /\ cache[key].timestamp = now
    /\ (pc # "Start" /\ SameHour /\ SameSize
           /\ now - item_data.at < config.cache_duration) =>
           /\ CacheHit
           /\ result[1].data = Some(item_data.response)
           /\ result[1].items_processed = Len(item_data.response.items)
           /\ result[1].items_success = Len(item_data.response.items)
           /\ stats.request_count = 0 /\ browser.created = 0

\* a later crawl got the empty response of an earlier crawl from the cache
C35_Witness ==
    /\ CacheHit
    /\ now > item_data.at
    /\ item_data.response.items = <<>>
    /\ result[1].items_processed = 0
    /\ stats.request_count = 0


\* C36: the key leaves skip_top_item out: a crawl without skip_top_item, run
\* in the hour of the store of an earlier crawl with skip_top_item, with the
\* same max_items and within ttl, is a cache hit and returns the earlier
\* response, which lacks the pinned first entry, without any request of its
\* own.
C36_SkipTopNotInKey ==
    (pc # "Start" /\ item_data.skip_top_item /\ ~config.skip_top_item
       /\ SameHour /\ SameSize /\ now - item_data.at < config.cache_duration) =>
        /\ CacheHit
        /\ result[1].data = Some(item_data.response)
        /\ \A k \in 1..Len(result[1].data[1].items) :
              result[1].data[1].items[k].index # 1
        /\ trace = <<>> /\ stats.request_count = 0

\* a crawl without skip_top_item returned the response of an earlier crawl
\* with skip_top_item, which starts at the second entry
C36_Witness ==
    /\ CacheHit
    /\ item_data.skip_top_item /\ ~config.skip_top_item
    /\ result[1].data[1].items = <<SecondItem>>


\* C37: an assembled item has at most one article, and when it has one its
\* URL is the short link of that article.
C37_ArticleShortUrl ==
    ~IsNone(verdict) =>
        /\ Len(verdict[1].articles) <= 1
        /\ \A k \in 1..Len(verdict[1].articles) :
              verdict[1].url = verdict[1].articles[k].short_url

\* an item with an article was assembled from a payload with a video id
C37_Witness ==
    /\ ~IsNone(verdict)
    /\ Len(verdict[1].articles) = 1
    /\ verdict[1].url = Url("video_url", "7", "")


\* C38: every CrawlResult crawl() returns has success = TRUE exactly when it
\* carries data, and a failed one carries an error message and the counters
\* reached when the failure occurred, which are 0 when the item loop had not
\* started.
C38_ResultShape ==
    ~IsNone(result) =>
        /\ result[1].success <=> ~IsNone(result[1].data)
        /\ ~result[1].success =>
              /\ ~IsNone(result[1].error_message)
              /\ result[1].items_processed = items_processed
              /\ result[1].items_success = items_success
              /\ (trace = <<>>) =>
                    (result[1].items_processed = 0 /\ result[1].items_success = 0)

\* an exception reached the handler of crawl() and became a failed result
C38_Witness ==
    /\ pc = "Done"
    /\ ~IsNone(raised)
    /\ ~result[1].success
    /\ IsNone(result[1].data)
    /\ ~IsNone(result[1].error_message)

====
